---- MODULE Spec2Model ----
(***************************************************************************)
(* Model of openai-tts-mcp-server: the cache key digest                    *)
(* (TTSCacheKey.to_hash) and the on-disk LRU store with TTL expiry         *)
(* (TTSCache) of src/cache.py; the text splitter (TextSplitter), the audio *)
(* merger (AudioFileMerger) and the text normalisation of src/utils.py;    *)
(* validation (src/config.py) and the routing, the long-text request and   *)
(* the merge step of src/tts_client.py and src/main.py.                    *)
(*                                                                         *)
(* Specifications: Spec (cache store), SpecKey (key digest), SpecSplit     *)
(* (split_text), SpecMerge (merge_audio_files), SpecRoute                  *)
(* (generate_speech up to the choice of path), SpecLong                    *)
(* (_generate_long_speech and the answer of the tool call), SpecTool       *)
(* (handle_generate_speech for a text on the single-call path), SpecIO     *)
(* (cache store with failing file operations), SpecLoad (construction of   *)
(* a store over an existing cache directory), SpecStats (get_stats),       *)
(* SpecStore (put, get, cleanup and resize on a store of capacity 1 or     *)
(* more that nothing else touches), SpecRestart (SpecStore followed by the *)
(* construction of a new store over the same directory). Each leaves the   *)
(* variables of the other components at their idle values.                 *)
(*                                                                         *)
(* Abstractions.                                                           *)
(*  - A string is a sequence of one-character strings. The whitespace     *)
(*    characters are the space, the newline and the tab; the tab stands    *)
(*    for every other character str.strip() removes (\r, \f, \v, U+3000).  *)
(*  - A speed is an integer number of thousandths (1001 is 1.001); a       *)
(*    rounded speed is an integer number of hundredths.                    *)
(*  - SHA-256 is taken to be collision free: the digest of a string is     *)
(*    the tagged string itself.                                            *)
(*  - In the store, a key is the digest of a TTSCacheKey; every source     *)
(*    file handed to put for one key has the same extension (the key       *)
(*    contains response_format and tts_client.py names the file after it), *)
(*    so a key has one artifact path under the cache directory.            *)
(*  - time.time() reads the variable now, which the environment advances.  *)
(*  - File operations succeed except in SpecIO, where faults names the     *)
(*    operations that fail in the cache directory for the whole run: the   *)
(*    unlink of an artifact file, the unlink of the metadata file, the     *)
(*    copy of a source file.                                               *)
(*  - The texts given to split_text and to generate_speech are over small  *)
(*    alphabets that hold one character of each kind the code tells apart. *)
(*  - An audio file is a header followed by frames named after the text    *)
(*    they render; pydub decodes a file to its frames.                     *)
(*  - A file name built from a timestamp is numbered by stamp: no two      *)
(*    files are written within one microsecond.                            *)
(*  - In SpecLong the chunk texts are given, and the digest of a chunk's   *)
(*    cache key is the chunk text (the other key fields are the same for   *)
(*    every chunk). A step of a chunk task runs from one await to the      *)
(*    next, as the event loop runs it.                                     *)
(***************************************************************************)
EXTENDS Integers, Sequences, FiniteSets, TLC

\* ---------------------------------------------------------------- bounds
MaxCap == 3        \* largest capacity given to the constructor and to resize
MaxTime == 3       \* the clock runs over 1..MaxTime
MaxTTL == 1        \* ttl_seconds is drawn from 1..MaxTTL
MaxGets == 2       \* number of get calls (hits + misses) in one run
MaxTextLen == 3    \* longest text of a cache key
MaxInsLen == 1     \* longest instructions string of a cache key
MaxSplitLen == 6   \* longest text given to split_text
MaxChunkLen == 5   \* max_length of a TextSplitter is drawn from 1..MaxChunkLen
MaxFiles == 3      \* most artifact files handed to merge_audio_files
MaxMerges == 2     \* number of merge_audio_files calls in one run
MaxReqLen == 5     \* longest text of a generate_speech request
MaxLimit == 3      \* max_text_length is drawn from 1..MaxLimit
MaxChunks == 4     \* most chunks of a long-text request
MaxToolLen == 2    \* longest text of a generate_speech tool call
MaxStatGets == 4   \* number of get calls in one run that reads the statistics

\* asyncio.Semaphore(3): chunk tasks inside _generate_single_speech at once
MaxConcurrent == 3

Keys == {"A", "B", "C"}

VARIABLES
    max_size,      \* TTSCache.max_size
    ttl_seconds,   \* TTSCache.ttl_seconds
    cache,         \* TTSCache._cache: the entries, least recently used first
    files,         \* artifact files that exist in the cache directory
    metadata,      \* cache_metadata.json: whether it exists, and its content
    hits,          \* TTSCache.hits
    misses,        \* TTSCache.misses
    now,           \* the value time.time() returns
    last,          \* the last call: operation, arguments, branch, result
    kd,            \* key derivation: two cache keys and their digests
    sp,            \* TextSplitter.split_text: its locals and its position
    temp_dir,      \* the files of the temporary directory: path -> bytes
    stamp,         \* the number of timestamps taken for file names
    mg,            \* merge_audio_files: its argument and its calls so far
    rt,            \* TTSClient.generate_speech: validation and routing
    lr,            \* a long-text request: its chunk tasks and its outcome
    rq,            \* a generate_speech tool call: arguments, position, answer
    faults,        \* the file operations that fail in the cache directory
    boot           \* the construction of a store over an existing directory

vars == <<max_size, ttl_seconds, cache, files, metadata, hits, misses, now,
          last, kd, sp, temp_dir, stamp, mg, rt, lr, rq, faults, boot>>

storeVars == <<max_size, ttl_seconds, cache, files, metadata, hits, misses>>

\* the variables of the components other than the cache store
otherVars == <<kd, sp, temp_dir, stamp, mg, rt, lr, rq, faults, boot>>

\* the tool call, the failing file operations and the construction
restVars == <<rq, faults, boot>>

\* the variables of the merger, of a request and of the environment
requestVars == <<temp_dir, stamp, mg, rt, lr, restVars>>

\* ------------------------------------------------------- sequence helpers
Range(s) == {s[i] : i \in 1..Len(s)}

Min(a, b) == IF a <= b THEN a ELSE b

\* the keys of an index, in order
KeysOf(c) == [i \in 1..Len(c) |-> c[i].key]

HasKey(c, k) == \E i \in 1..Len(c) : c[i].key = k

IndexOf(c, k) == CHOOSE i \in 1..Len(c) : c[i].key = k

EntryOf(c, k) == c[IndexOf(c, k)]

\* del self._cache[k]
DelKey(c, k) == SelectSeq(c, LAMBDA e : e.key # k)

\* ------------------------------------------------------------- CacheEntry
NoPath == <<>>

\* self.cache_dir / f"{key_hash}{file_extension}"
CachePath(k) == <<"cache_dir", k>>

NewEntry(k, fp, t) ==
    [key |-> k, file_path |-> fp, created_at |-> t, access_count |-> 0,
     last_accessed |-> t]

\* a touch that also restarts the entry's lifetime (sliding expiry)
touch_sliding(e, t) ==
    [e EXCEPT !.access_count = @ + 1, !.last_accessed = t, !.created_at = t]

touch(e, t) ==
    [e EXCEPT !.access_count = @ + 1, !.last_accessed = t]

is_expired(e, t, ttl) == (t - e.created_at) > ttl

\* an entry that is never checked against the disk
exists_unchecked(e, fs) == TRUE

exists(e, fs) == e.file_path \in fs

\* an unlink that leaves the file in place
unlink_skipped(fs, p) == fs

\* Path(p).unlink(missing_ok=True) of an artifact file in a try block; where
\* deletions fail the exception is caught and the file stays
unlink(fs, p) == IF "unlink" \in faults THEN fs ELSE fs \ {p}

\* ------------------------------------------------------------ TTSCacheKey
\* Optional[str]: None, or a string
NoneStr == [some |-> FALSE, val |-> <<>>]

Some(str) == [some |-> TRUE, val |-> str]

StringsUpTo(alphabet, n) == UNION {[1..m -> alphabet] : m \in 0..n}

Texts == StringsUpTo({" ", "h"}, MaxTextLen)

Instructions == {NoneStr} \cup {Some(x) : x \in StringsUpTo({" ", "x"}, MaxInsLen)}

Voices == {"alloy", "echo"}

Formats == {"mp3", "wav"}

\* speeds in thousandths; none lies halfway between two hundredths, where the
\* result of round() depends on the binary representation of the float
Speeds == {1000, 1001, 1010}

\* TTSCacheKey.__init__
KeyInputs ==
    [text : Texts, voice : Voices, speed : Speeds, response_format : Formats,
     instructions : Instructions]

\* the characters str.strip() removes
Whitespace == {" ", "\n", "\t"}

RECURSIVE lstrip(_)
lstrip(str) ==
    IF str # <<>> /\ Head(str) \in Whitespace THEN lstrip(Tail(str)) ELSE str

RECURSIVE rstrip(_)
rstrip(str) ==
    IF str # <<>> /\ str[Len(str)] \in Whitespace
    THEN rstrip(SubSeq(str, 1, Len(str) - 1))
    ELSE str

\* str.strip()
strip(str) == rstrip(lstrip(str))

\* round(speed, 2): thousandths to hundredths
round2(speed) ==
    LET q == speed \div 10
        r == speed % 10
    IN  IF r < 5 THEN q
        ELSE IF r > 5 THEN q + 1
        ELSE IF q % 2 = 0 THEN q ELSE q + 1

\* the truth value Python gives an Optional[str]: None and "" are false
Truthy(opt) == opt.some /\ opt.val # <<>>

\* json.dumps(key_data, sort_keys=True): the values in the order of the sorted
\* field names instructions, response_format, speed, text, voice
json_dumps(d) ==
    <<d.instructions, d.response_format, d.speed, d.text, d.voice>>

\* hashlib.sha256(...).hexdigest(), taken to be collision free
sha256(str) == <<"sha256", str>>

\* TTSCacheKey.to_hash
to_hash(k) ==
    LET key_data ==
            [text |-> strip(k.text),
             voice |-> k.voice,
             speed |-> round2(k.speed),
             response_format |-> k.response_format,
             instructions |-> IF Truthy(k.instructions)
                              THEN Some(strip(k.instructions.val))
                              ELSE NoneStr]
    IN  sha256(json_dumps(key_data))


\* ----------------------------------------------------------- TextSplitter
\* the characters of a text: a letter, the three whitespace characters, the
\* sentence endings "." and "!" and the comma of the delimiter ", "
SplitAlphabet == {"a", " ", "\t", ".", "!", "\n", ","}

SplitTexts == StringsUpTo(SplitAlphabet, MaxSplitLen)

\* TextSplitter.SENTENCE_ENDINGS, the endings of the alphabet
SENTENCE_ENDINGS == << <<".">>, <<"!">> >>

\* TextSplitter.PARAGRAPH_SEPARATORS, the separators of the alphabet
PARAGRAPH_SEPARATORS == << <<"\n", "\n">> >>

\* the delimiters of the last search of _find_split_point, in its order
DELIMITERS == << <<",", " ">>, <<" ">> >>

SetMax(S) == CHOOSE x \in S : \A y \in S : y <= x

\* str.rfind(sub): the highest 0-based index at which sub starts, or -1
rfind(str, sub) ==
    LET at == {p \in 0..(Len(str) - Len(sub)) :
                 SubSeq(str, p + 1, p + Len(sub)) = sub}
    IN  IF at = {} THEN -1 ELSE SetMax(at)

\* a search window that is the whole text
search_range_whole(text, max_length) == Len(text)

\* search_range = min(len(text), self.max_length)
search_range(text, max_length) == Min(Len(text), max_length)

\* for sub in subs: pos = rfind(sub); if pos > max_length * 0.5: return
\* pos + len(sub); -1 when the loop ends without a return
RECURSIVE past_half(_, _, _)
past_half(search_text, max_length, subs) ==
    IF subs = <<>> THEN -1
    ELSE LET pos == rfind(search_text, Head(subs))
         IN  IF 2 * pos > max_length THEN pos + Len(Head(subs))
             ELSE past_half(search_text, max_length, Tail(subs))

\* the loop over the sentence endings: best_pos is replaced when the position
\* of an ending is past 30% of max_length and greater than best_pos
RECURSIVE sentence_point(_, _, _, _)
sentence_point(search_text, max_length, endings, best_pos) ==
    IF endings = <<>> THEN best_pos
    ELSE LET pos == rfind(search_text, Head(endings))
             best == IF 10 * pos > 3 * max_length /\ pos > best_pos
                     THEN pos + Len(Head(endings))
                     ELSE best_pos
         IN  sentence_point(search_text, max_length, Tail(endings), best)

\* _find_split_point with the rule that gave the point
SplitSearch(text, max_length) ==
    LET search_text == SubSeq(text, 1, search_range(text, max_length))
        para == past_half(search_text, max_length, PARAGRAPH_SEPARATORS)
        best_pos == sentence_point(search_text, max_length, SENTENCE_ENDINGS, -1)
        nl == rfind(search_text, <<"\n">>)
        delim == past_half(search_text, max_length, DELIMITERS)
    IN  IF para # -1 THEN [point |-> para, rule |-> "paragraph"]
        ELSE IF best_pos > -1 THEN [point |-> best_pos, rule |-> "sentence"]
        ELSE IF 10 * nl > 3 * max_length
             THEN [point |-> nl + 1, rule |-> "newline"]
        ELSE IF delim # -1 THEN [point |-> delim, rule |-> "delimiter"]
        ELSE [point |-> -1, rule |-> "forced"]

\* TextSplitter._find_split_point
find_split_point(text, max_length) == SplitSearch(text, max_length).point

\* a loop that keeps -1 as the split point and then cuts nothing
forced_cut_missing(split_point, max_length) ==
    IF split_point = -1 THEN 0 ELSE split_point

\* a forced cut in the middle of the window
forced_cut_halved(split_point, max_length) ==
    IF split_point = -1 THEN (max_length + 1) \div 2 ELSE split_point

\* if split_point == -1: split_point = self.max_length
forced_cut(split_point, max_length) ==
    IF split_point = -1 THEN max_length ELSE split_point

\* chunk = remaining_text[:split_point].strip()
take_chunk(remaining_text, split_point) ==
    strip(SubSeq(remaining_text, 1, split_point))

\* a remainder that starts one character after the split point
drop_chunk_skipping(remaining_text, split_point) ==
    strip(SubSeq(remaining_text, split_point + 2, Len(remaining_text)))

\* remaining_text = remaining_text[split_point:].strip()
drop_chunk(remaining_text, split_point) ==
    strip(SubSeq(remaining_text, split_point + 1, Len(remaining_text)))

\* a short text that is returned as it was given
short_text_untrimmed(text) == <<text>>

\* text = text.strip(); if len(text) <= self.max_length: return [text]
short_text(text) == <<strip(text)>>

SpIdle ==
    [text |-> <<>>, max_length |-> 1, remaining_text |-> <<>>, chunks |-> <<>>,
     pc |-> "idle", rule |-> "-", cuts |-> 0]

\* -------------------------------------------------------- AudioFileMerger
\* The bytes of an audio file are a header followed by frames; a frame is
\* named after the text it renders.
Header == "H"

\* the audio the external service returns for a text
synth(k) == <<Header, k>>

\* pydub AudioSegment.from_file: the frames of the file
decode(bytes) == SelectSeq(bytes, LAMBDA b : b # Header)

\* pydub AudioSegment.export: one header, then the frames
encode(frames) == <<Header>> \o frames

NoFiles == <<>>

\* Path(p).exists() for a path of the temporary or of the cache directory
Readable(p, tmp, cfiles) == p \in DOMAIN tmp \/ p \in cfiles

\* the bytes of a file; an artifact of the cache directory is a copy of the
\* audio of its key
ReadBytes(p, tmp) == IF p \in DOMAIN tmp THEN tmp[p] ELSE synth(p[2])

\* a concatenation that puts the new segment first
concat_audio_prepend(combined, audio) == audio \o combined

\* combined += audio
concat_audio(combined, audio) == combined \o audio

\* for file_path in file_paths[1:]: combined += AudioSegment.from_file(...)
RECURSIVE combine(_, _)
combine(combined, inputs) ==
    IF inputs = <<>> THEN combined
    ELSE combine(concat_audio(combined, decode(Head(inputs))), Tail(inputs))

\* _simple_concatenate: output_file.write(input_file.read()) for every input
RECURSIVE write_all(_, _)
write_all(out, inputs) ==
    IF inputs = <<>> THEN out ELSE write_all(out \o Head(inputs), Tail(inputs))

\* what the environment does to a merge: pydub decodes, pydub is not
\* installed (ImportError), or pydub raises while decoding or exporting
MergeModes == {"pydub", "no_pydub", "decode_error"}

Raised(tmp) == [raised |-> TRUE, path |-> NoPath, temp_dir |-> tmp]

\* AudioFileMerger.merge_audio_files; n numbers the output file
merge_audio_files(file_paths, tmp, cfiles, mode, n) ==
    LET inputs == [i \in 1..Len(file_paths) |-> ReadBytes(file_paths[i], tmp)]
        readable == \A i \in 1..Len(file_paths) :
                      Readable(file_paths[i], tmp, cfiles)
        \* the first input that cannot be opened: the output file was
        \* created and holds the inputs before it
        unreadable == CHOOSE i \in 1..Len(file_paths) :
                        /\ ~Readable(file_paths[i], tmp, cfiles)
                        /\ \A j \in 1..(i - 1) :
                             Readable(file_paths[j], tmp, cfiles)
    IN  IF file_paths = <<>> THEN Raised(tmp)
        ELSE IF Len(file_paths) = 1
        THEN [raised |-> FALSE, path |-> file_paths[1], temp_dir |-> tmp]
        ELSE IF mode = "no_pydub"
        THEN IF readable
             THEN [raised |-> FALSE, path |-> <<"concatenated", n>>,
                   temp_dir |-> (<<"concatenated", n>> :>
                                 write_all(<<>>, inputs)) @@ tmp]
             ELSE Raised((<<"concatenated", n>> :>
                          write_all(<<>>, SubSeq(inputs, 1, unreadable - 1)))
                         @@ tmp)
        ELSE IF ~readable \/ mode = "decode_error" THEN Raised(tmp)
        ELSE [raised |-> FALSE, path |-> <<"merged", n>>,
              temp_dir |-> (<<"merged", n>> :>
                            encode(combine(decode(inputs[1]), Tail(inputs))))
                           @@ tmp]

MgIdle == [file_paths |-> <<>>, calls |-> <<>>]

\* ------------------------------------------- validation and normalisation
\* the characters of a request text: a letter, a space, a sentence ending
\* and "*", one of the markdown symbols extract_speech_text removes
RequestAlphabet == {"a", " ", ".", "*"}

RequestTexts == StringsUpTo(RequestAlphabet, MaxReqLen)

\* re.sub(r'\s+', ' ', ...) and re.sub(r'[.]{2,}', '.', ...): a run of one
\* character is replaced by one occurrence
RECURSIVE collapse(_, _)
collapse(str, c) ==
    IF Len(str) < 2 THEN str
    ELSE IF str[1] = c /\ str[2] = c THEN collapse(Tail(str), c)
    ELSE <<str[1]>> \o collapse(Tail(str), c)

\* TextProcessor.normalize_text
normalize_text(text) ==
    IF text = <<>> THEN <<>>
    ELSE collapse(collapse(strip(text), " "), ".")

\* TextProcessor.extract_speech_text: of the alphabet, the substitutions
\* remove every "*"
extract_speech_text(text) ==
    normalize_text(SelectSeq(text, LAMBDA c : c # "*"))

\* normalize_text_for_speech
normalize_text_for_speech(text) == extract_speech_text(text)

\* ConfigManager.validate_tts_parameters, the checks on the text; voice,
\* speed, format and mode are valid
validate_tts_parameters(text, max_text_length) ==
    IF text = <<>> \/ strip(text) = <<>>
    THEN [ok |-> FALSE, error |-> "empty", text |-> <<>>]
    ELSE IF Len(text) > max_text_length
    THEN [ok |-> FALSE, error |-> "too_long", text |-> <<>>]
    ELSE [ok |-> TRUE, error |-> "-", text |-> strip(text)]

RtIdle ==
    [text |-> <<>>, max_text_length |-> 1, pc |-> "idle", route |-> "-",
     error |-> "-", processed_text |-> <<>>]

\* --------------------------------------------------- long-text requests
\* TTSClient.merge_long_speech_files: a merge that raises gives the first path
merge_long_speech_files(file_paths, tmp, cfiles, mode, n) ==
    IF Len(file_paths) <= 1
    THEN [raised |-> FALSE,
          path |-> IF file_paths # <<>> THEN file_paths[1] ELSE NoPath,
          temp_dir |-> tmp]
    ELSE LET m == merge_audio_files(file_paths, tmp, cfiles, mode, n)
         IN  IF m.raised
             THEN [raised |-> FALSE, path |-> file_paths[1],
                   temp_dir |-> m.temp_dir]
             ELSE m

\* a merge step whose failure ends the request
merge_step_unprotected(result, merge_long_audio, tmp, cfiles, mode, n) ==
    IF merge_long_audio /\ Len(result) > 1
    THEN LET m == merge_audio_files(result, tmp, cfiles, mode, n)
         IN  [failed |-> m.raised, merge_raised |-> m.raised,
              file_paths |-> IF m.raised THEN result ELSE <<m.path>>,
              temp_dir |-> m.temp_dir]
    ELSE [failed |-> FALSE, merge_raised |-> FALSE, file_paths |-> result,
          temp_dir |-> tmp]

\* handle_generate_speech on a list result: the optional merge; merge_raised
\* records whether merge_audio_files raised
merge_step(result, merge_long_audio, tmp, cfiles, mode, n) ==
    IF merge_long_audio /\ Len(result) > 1
    THEN LET m == merge_long_speech_files(result, tmp, cfiles, mode, n)
         IN  [failed |-> FALSE,
              merge_raised |-> merge_audio_files(result, tmp, cfiles, mode,
                                                 n).raised,
              file_paths |-> IF m.raised THEN result ELSE <<m.path>>,
              temp_dir |-> m.temp_dir]
    ELSE [failed |-> FALSE, merge_raised |-> FALSE, file_paths |-> result,
          temp_dir |-> tmp]

\* results in the order in which the tasks completed
gather_completion_order(task, order) ==
    [j \in 1..Len(order) |-> task[order[j]].ret]

\* asyncio.gather(*tasks): the results in the order of the tasks
gather(task, order) == [i \in 1..Len(task) |-> task[i].ret]

NoResponse ==
    [success |-> FALSE, file_path |-> NoPath, file_count |-> 0,
     merged |-> FALSE, merge_raised |-> FALSE]

\* a chunk task; events lists what _generate_single_speech has done for the
\* chunk so far: "lookup" (cache.get), "hit" or "miss", "call" (the external
\* call was made), "write" (the audio file was written), "store" (cache.put),
\* "return"
NewTask == [pc |-> "new", ret |-> NoPath, wrote |-> NoPath, events |-> <<>>]

LrIdle ==
    [chunks |-> <<>>, enable_cache |-> FALSE, merge_long_audio |-> FALSE,
     task |-> <<>>, sem |-> MaxConcurrent, order |-> <<>>, pc |-> "idle",
     file_paths |-> <<>>, result |-> <<>>, response |-> NoResponse]

\* ------------------------------------------------ generate_speech tool
\* an argument of the tool call that was not given (None)
Absent == [some |-> FALSE, val |-> ""]

Given(v) == [some |-> TRUE, val |-> v]

\* a speed argument: not given, a number of thousandths, or not a number
NoSpeed == [some |-> FALSE, number |-> TRUE, val |-> 0]

Num(n) == [some |-> TRUE, number |-> TRUE, val |-> n]

NotNum == [some |-> TRUE, number |-> FALSE, val |-> 0]

\* x or default, for a string argument: None and "" are false
or_str(x, default) == IF x.some /\ x.val # "" THEN x.val ELSE default

\* speed or default: None and 0 are false, a string is true
or_speed(x, default) ==
    IF x.some /\ (~x.number \/ x.val # 0) THEN x ELSE default

\* TTSDefaults
defaults ==
    [voice |-> "alloy", speed |-> Num(1000), response_format |-> "mp3",
     output_mode |-> "file", instructions |-> NoneStr]

\* ConfigManager.BUILTIN_PRESETS, one of them
BUILTIN_PRESETS == {"calm_male"}

\* get_preset("calm_male")
preset_config ==
    [voice |-> "onyx", speed |-> Num(900), response_format |-> "mp3",
     instructions |-> Some(<<"x">>)]

valid_voices == {"alloy", "echo", "fable", "onyx", "nova", "shimmer", "coral"}

valid_formats == {"mp3", "opus", "aac", "flac", "wav", "pcm"}

valid_modes == {"file", "play", "both"}

\* the lowest and the highest speed, in thousandths
MinSpeed == 250

MaxSpeed == 4000

\* server_config.max_text_length of the tool's client: one less than the
\* longest text, so that a text can be oversized
ToolLimit == MaxToolLen - 1

Invalid(error) ==
    [ok |-> FALSE, error |-> error, text |-> <<>>, voice |-> "", speed |-> 0,
     response_format |-> "", instructions |-> NoneStr]

\* ConfigManager.validate_tts_parameters on all the arguments; output_mode is
\* the mode the caller passes (the tool handler passes "file" or "play"); the
\* tool has no instructions argument
validate_parameters(a, output_mode, max_text_length) ==
    LET unknown_preset == a.preset.some /\ a.preset.val # ""
                          /\ a.preset.val \notin BUILTIN_PRESETS
        from_preset == a.preset.some /\ a.preset.val \in BUILTIN_PRESETS
        voice == or_str(a.voice, IF from_preset THEN preset_config.voice
                                 ELSE defaults.voice)
        speed == or_speed(a.speed, IF from_preset THEN preset_config.speed
                                   ELSE defaults.speed)
        response_format ==
            or_str(a.response_format,
                   IF from_preset THEN preset_config.response_format
                   ELSE defaults.response_format)
        mode == or_str(output_mode, defaults.output_mode)
        instructions == IF from_preset THEN preset_config.instructions
                        ELSE defaults.instructions
        checked_text == validate_tts_parameters(a.text, max_text_length)
    IN  IF unknown_preset THEN Invalid("unknown_preset")
        ELSE IF ~checked_text.ok THEN Invalid(checked_text.error)
        ELSE IF voice \notin valid_voices THEN Invalid("bad_voice")
        ELSE IF ~speed.number THEN Invalid("speed_not_number")
        ELSE IF ~(MinSpeed <= speed.val /\ speed.val <= MaxSpeed)
        THEN Invalid("speed_out_of_range")
        ELSE IF response_format \notin valid_formats THEN Invalid("bad_format")
        ELSE IF mode \notin valid_modes THEN Invalid("bad_mode")
        ELSE [ok |-> TRUE, error |-> "-", text |-> checked_text.text,
              voice |-> voice, speed |-> speed.val,
              response_format |-> response_format,
              instructions |-> instructions]

\* the phrases the handler of _generate_single_speech looks for in the
\* lower-cased message of a failure
Phrases == {"api key", "quota", "rate limit"}

\* a classification that looks for the quota phrase first
classify_quota_first(message) ==
    IF "quota" \in message THEN "quota"
    ELSE IF "api key" \in message THEN "api_key"
    ELSE IF "rate limit" \in message THEN "rate_limit"
    ELSE "generic"

\* the except branch of _generate_single_speech; a message is the set of
\* phrases it contains
classify(message) ==
    IF "api key" \in message THEN "api_key"
    ELSE IF "quota" \in message THEN "quota"
    ELSE IF "rate limit" \in message THEN "rate_limit"
    ELSE "generic"

\* the answers of the tool: none yet, result_data, error_result, or an
\* exception that leaves the handler
NoAnswer ==
    [kind |-> "none", file_path |-> NoPath, file_count |-> 0, error |-> "-"]

Success(file_paths) ==
    [kind |-> "success",
     file_path |-> IF file_paths = <<>> THEN NoPath ELSE file_paths[1],
     file_count |-> Len(file_paths), error |-> "-"]

Failure(error) ==
    [kind |-> "error", file_path |-> NoPath, file_count |-> 0, error |-> error]

Exception(error) ==
    [kind |-> "exception", file_path |-> NoPath, file_count |-> 0,
     error |-> error]

NoArgs ==
    [text |-> <<>>, voice |-> Absent, speed |-> NoSpeed,
     response_format |-> Absent, output_mode |-> Absent, preset |-> Absent,
     enable_cache |-> FALSE]

\* failure is the message of the exception the external call raised
RqIdle ==
    [args |-> NoArgs, pc |-> "idle", text |-> <<>>, key |-> <<>>,
     events |-> <<>>, failure |-> {}, response |-> NoAnswer]

\* -------------------------------------------------------- construction
\* garbage: cache_metadata.json is not a JSON object; malformed: the keys
\* whose record cannot be turned into an entry; failed: _load_metadata went
\* through its except branch
BootIdle == [pc |-> "idle", garbage |-> FALSE, malformed |-> {}, failed |-> FALSE]

\* ---------------------------------------------------------------- TTSCache
NoMetadata == [exists |-> FALSE, entries |-> <<>>]

\* _save_metadata: the file is rewritten with every entry of the index
save_metadata(c) == [exists |-> TRUE, entries |-> c]

\* an eviction that starts one entry too late
evict_lru_late(c, fs, ms) ==
    IF Len(c) > ms /\ c # <<>>
    THEN [cache |-> Tail(c), files |-> fs \ {Head(c).file_path},
          raised |-> FALSE, evicted |-> <<Head(c).key>>]
    ELSE [cache |-> c, files |-> fs, raised |-> FALSE, evicted |-> <<>>]

\* _evict_lru: pops the front entry when the index is at capacity; popitem
\* raises KeyError on an empty index
evict_lru(c, fs, ms) ==
    IF Len(c) >= ms
    THEN IF c = <<>>
         THEN [cache |-> c, files |-> fs, raised |-> TRUE, evicted |-> <<>>]
         ELSE [cache |-> Tail(c), files |-> unlink(fs, Head(c).file_path),
               raised |-> FALSE, evicted |-> <<Head(c).key>>]
    ELSE [cache |-> c, files |-> fs, raised |-> FALSE, evicted |-> <<>>]

\* self._cache[key_hash] = entry: an OrderedDict assignment keeps the position
\* of a key that is present and appends a key that is not
SetItem(c, e) ==
    IF HasKey(c, e.key)
    THEN [i \in 1..Len(c) |-> IF c[i].key = e.key THEN e ELSE c[i]]
    ELSE Append(c, e)

\* a hit that leaves the entry where it is in the order
MoveToEnd_inplace(c, e) == SetItem(c, e)

\* self._cache.move_to_end(key_hash) of the touched entry
MoveToEnd(c, e) == Append(DelKey(c, e.key), e)

Call(op, k, src, n, branch, ret, evicted) ==
    [op |-> op, key |-> k, src |-> src, n |-> n, branch |-> branch,
     ret |-> ret, evicted |-> evicted]

NoKey == "-"

KdIdle == [a |-> <<>>, b |-> <<>>, da |-> <<>>, db |-> <<>>, done |-> FALSE]

\* TTSCache.__init__ on a new cache directory: no metadata file to load,
\* nothing to clean up
Init ==
    /\ max_size \in 1..MaxCap
    /\ ttl_seconds \in 1..MaxTTL
    /\ cache = <<>>
    /\ files = {}
    /\ metadata = NoMetadata
    /\ hits = 0
    /\ misses = 0
    /\ now = 1
    /\ last = Call("init", NoKey, FALSE, 0, "init", NoPath, <<>>)
    /\ kd = KdIdle
    /\ sp = SpIdle
    /\ temp_dir = NoFiles
    /\ stamp = 0
    /\ mg = MgIdle
    /\ rt = RtIdle
    /\ lr = LrIdle
    /\ rq = RqIdle
    /\ faults = {}
    /\ boot = BootIdle

\* TTSCache.put past the source check: copy the source into the cache directory,
\* evict, insert the new entry, save the metadata; an exception (the KeyError
\* of _evict_lru) is caught and ends the call after the copy
PutStore(k, src) ==
    LET copied == files \cup {CachePath(k)}
        ev == evict_lru(cache, copied, max_size)
    IN  IF "copy" \in faults
        THEN /\ UNCHANGED storeVars
             /\ last' = Call("put", k, src, 0, "nocopy", NoPath, <<>>)
        ELSE IF ev.raised
        THEN /\ files' = ev.files
             /\ UNCHANGED <<max_size, ttl_seconds, cache, metadata, hits, misses>>
             /\ last' = Call("put", k, src, 0, "raised", NoPath, <<>>)
        ELSE /\ cache' = SetItem(ev.cache, NewEntry(k, CachePath(k), now))
             /\ files' = ev.files
             /\ metadata' = save_metadata(cache')
             /\ UNCHANGED <<max_size, ttl_seconds, hits, misses>>
             /\ last' = Call("put", k, src, 0, "stored", NoPath, ev.evicted)

\* a put that does not check that the source file exists
Put_unchecked(k, src) ==
    /\ PutStore(k, src)
    /\ UNCHANGED <<now, otherVars>>

\* TTSCache.put(cache_key, file_path); src says whether file_path exists
Put(k, src) ==
    /\ IF ~src
       THEN /\ UNCHANGED storeVars
            /\ last' = Call("put", k, src, 0, "nosrc", NoPath, <<>>)
       ELSE PutStore(k, src)
    /\ UNCHANGED <<now, otherVars>>

\* the body of TTSCache.get(cache_key)
GetStore(k) ==
    /\ IF HasKey(cache, k)
       THEN LET entry == EntryOf(cache, k)
            IN  IF is_expired(entry, now, ttl_seconds) \/ ~exists(entry, files)
                THEN /\ cache' = DelKey(cache, k)
                     /\ files' = unlink(files, entry.file_path)
                     /\ misses' = misses + 1
                     /\ UNCHANGED hits
                     /\ last' = Call("get", k, FALSE, 0, "purge", NoPath, <<k>>)
                ELSE /\ cache' = MoveToEnd(cache, touch(entry, now))
                     /\ hits' = hits + 1
                     /\ UNCHANGED <<files, misses>>
                     /\ last' = Call("get", k, FALSE, 0, "hit",
                                     entry.file_path, <<>>)
       ELSE /\ misses' = misses + 1
            /\ UNCHANGED <<cache, files, hits>>
            /\ last' = Call("get", k, FALSE, 0, "miss", NoPath, <<>>)
    /\ UNCHANGED <<max_size, ttl_seconds, metadata>>

\* TTSCache.get(cache_key), at most MaxGets times in a run
Get(k) ==
    /\ hits + misses < MaxGets
    /\ GetStore(k)
    /\ UNCHANGED <<now, otherVars>>

\* a clear that keeps the hit and miss counters
Clear_keepstats ==
    /\ files' = files \ {cache[i].file_path : i \in 1..Len(cache)}
    /\ cache' = <<>>
    /\ metadata' = [exists |-> FALSE, entries |-> <<>>]
    /\ last' = Call("clear", NoKey, FALSE, 0, "clear", NoPath, KeysOf(cache))
    /\ UNCHANGED <<max_size, ttl_seconds, hits, misses, now, otherVars>>

\* TTSCache.clear(): the unlink of the metadata file is outside every try
\* block, so where it fails the exception leaves clear before the counters
\* are reset
Clear ==
    /\ files' = IF "unlink" \in faults THEN files
                ELSE files \ {cache[i].file_path : i \in 1..Len(cache)}
    /\ cache' = <<>>
    /\ IF metadata.exists /\ "unlink_metadata" \in faults
       THEN /\ UNCHANGED <<metadata, hits, misses>>
            /\ last' = Call("clear", NoKey, FALSE, 0, "escaped", NoPath,
                            KeysOf(cache))
       ELSE /\ metadata' = NoMetadata
            /\ hits' = 0
            /\ misses' = 0
            /\ last' = Call("clear", NoKey, FALSE, 0, "clear", NoPath,
                            KeysOf(cache))
    /\ UNCHANGED <<max_size, ttl_seconds, now, otherVars>>

\* the entries _cleanup_expired removes
Stale(c, fs, t, ttl) ==
    SelectSeq(c, LAMBDA e : is_expired(e, t, ttl) \/ ~exists(e, fs))

\* TTSCache.cleanup() -> _cleanup_expired()
Cleanup ==
    LET expired == Stale(cache, files, now, ttl_seconds)
    IN  /\ cache' = SelectSeq(cache, LAMBDA e : e \notin Range(expired))
        /\ files' = IF "unlink" \in faults THEN files
                    ELSE files \ {expired[i].file_path : i \in 1..Len(expired)}
        /\ metadata' = IF expired # <<>> THEN save_metadata(cache')
                       ELSE metadata
        /\ last' = Call("cleanup", NoKey, FALSE, 0, "cleanup", NoPath,
                        KeysOf(expired))
        /\ UNCHANGED <<max_size, ttl_seconds, hits, misses, now, otherVars>>

\* the loop of resize: while len(self._cache) > self.max_size: _evict_lru()
RECURSIVE EvictLoop(_, _, _)
EvictLoop(c, fs, ms) ==
    IF Len(c) > ms
    THEN LET ev == evict_lru(c, fs, ms)
         IN  IF ev.raised
             THEN [cache |-> ev.cache, files |-> ev.files, raised |-> TRUE,
                   evicted |-> <<>>]
             ELSE LET rest == EvictLoop(ev.cache, ev.files, ms)
                  IN  [rest EXCEPT !.evicted = ev.evicted \o @]
    ELSE [cache |-> c, files |-> fs, raised |-> FALSE, evicted |-> <<>>]

\* TTSCache.resize(new_max_size), new_max_size >= 0: the loop then stops at
\* an index of new_max_size entries and _evict_lru never meets an empty index
Resize(n) ==
    LET loop == EvictLoop(cache, files, n)
    IN  /\ max_size' = n
        /\ cache' = loop.cache
        /\ files' = loop.files
        /\ metadata' = save_metadata(cache')
        /\ last' = Call("resize", NoKey, FALSE, n, "resize", NoPath,
                        loop.evicted)
        /\ UNCHANGED <<ttl_seconds, hits, misses, now, otherVars>>

\* the clock advances
Tick ==
    /\ now < MaxTime
    /\ now' = now + 1
    /\ last' = Call("tick", NoKey, FALSE, 0, "tick", NoPath, <<>>)
    /\ UNCHANGED <<storeVars, otherVars>>

\* something outside the program deletes an artifact file
ExternalDelete(p) ==
    /\ p \in files
    /\ files' = files \ {p}
    /\ last' = Call("delete", NoKey, FALSE, 0, "delete", NoPath, <<>>)
    /\ UNCHANGED <<max_size, ttl_seconds, cache, metadata, hits, misses, now,
                   otherVars>>

Next ==
    \/ \E k \in Keys, src \in BOOLEAN : Put(k, src)
    \/ \E k \in Keys : Get(k)
    \/ Clear
    \/ Cleanup
    \/ \E n \in 0..MaxCap : Resize(n)
    \/ Tick
    \/ \E k \in Keys : ExternalDelete(CachePath(k))

Spec == Init /\ [][Next]_vars

\* a rounding that drops the digits after the second decimal
round_rate_down(num, den) == num \div den

\* round(num / den, 2) in hundredths: the nearest integer to num / den, a tie
\* going to the even one
round_rate(num, den) ==
    LET q == num \div den
        r == num % den
    IN  IF 2 * r < den THEN q
        ELSE IF 2 * r > den THEN q + 1
        ELSE IF q % 2 = 0 THEN q ELSE q + 1

\* the hit_rate of get_stats, in hundredths of a percent
hit_rate(h, m) == IF h + m > 0 THEN round_rate(10000 * h, h + m) ELSE 0

\* TTSCache.get_stats(): n of the call is the reported hit rate
GetStats ==
    /\ last' = Call("get_stats", NoKey, FALSE, hit_rate(hits, misses), "stats",
                    NoPath, <<>>)
    /\ UNCHANGED <<storeVars, now, otherVars>>

\* TTSCache.get(cache_key), at most MaxStatGets times in a run
StatsGet(k) ==
    /\ hits + misses < MaxStatGets
    /\ GetStore(k)
    /\ UNCHANGED <<now, otherVars>>

NextStats ==
    \/ \E k \in {"A", "B"} : Put(k, TRUE)
    \/ \E k \in {"A", "B"} : StatsGet(k)
    \/ Clear
    \/ Tick
    \/ GetStats

SpecStats == Init /\ [][NextStats]_vars

\* the file operations that can fail in the cache directory
FaultKinds == {"unlink", "unlink_metadata", "copy"}

\* a store on a new cache directory in which the operations of faults fail
InitIO ==
    /\ max_size \in 1..2
    /\ ttl_seconds = MaxTTL
    /\ cache = <<>>
    /\ files = {}
    /\ metadata = NoMetadata
    /\ hits = 0
    /\ misses = 0
    /\ now = 1
    /\ last = Call("init", NoKey, FALSE, 0, "init", NoPath, <<>>)
    /\ kd = KdIdle
    /\ sp = SpIdle
    /\ temp_dir = NoFiles
    /\ stamp = 0
    /\ mg = MgIdle
    /\ rt = RtIdle
    /\ lr = LrIdle
    /\ rq = RqIdle
    /\ faults \in SUBSET FaultKinds
    /\ boot = BootIdle

NextIO ==
    \/ \E k \in {"A", "B"} : Put(k, TRUE)
    \/ \E k \in {"A", "B"} : Get(k)
    \/ Clear
    \/ Cleanup
    \/ \E n \in 1..2 : Resize(n)
    \/ Tick

SpecIO == InitIO /\ [][NextIO]_vars

\* the loop of _load_metadata over the records of the file, in file order: a
\* record whose file exists and that is not expired becomes an entry, any
\* other well-formed record is skipped, a malformed record raises and ends
\* the loop with the entries added so far
RECURSIVE load_metadata(_, _, _, _, _, _)
load_metadata(records, malformed, c, fs, t, ttl) ==
    IF records = <<>> THEN [cache |-> c, failed |-> FALSE]
    ELSE IF Head(records).key \in malformed THEN [cache |-> c, failed |-> TRUE]
    ELSE load_metadata(Tail(records), malformed,
                       IF exists(Head(records), fs)
                          /\ ~is_expired(Head(records), t, ttl)
                       THEN SetItem(c, Head(records)) ELSE c,
                       fs, t, ttl)

\* a cache directory left by an earlier process: a metadata file of up to two
\* records (or none, or an unparseable one) and any of their artifact files
InitLoad ==
    /\ max_size = MaxCap
    /\ ttl_seconds = MaxTTL
    /\ cache = <<>>
    /\ files \in SUBSET {CachePath("A"), CachePath("B")}
    /\ now \in 1..MaxTime
    /\ metadata \in {NoMetadata} \cup
           {save_metadata([i \in 1..Len(ks) |->
                              NewEntry(ks[i], CachePath(ks[i]), ts[i])]) :
              ks \in {<<>>, <<"A">>, <<"B">>, <<"A", "B">>, <<"B", "A">>},
              ts \in [1..2 -> 1..MaxTime]}
    /\ \A i \in 1..Len(metadata.entries) : metadata.entries[i].created_at <= now
    /\ hits = 0
    /\ misses = 0
    /\ last = Call("none", NoKey, FALSE, 0, "none", NoPath, <<>>)
    /\ kd = KdIdle
    /\ sp = SpIdle
    /\ temp_dir = NoFiles
    /\ stamp = 0
    /\ mg = MgIdle
    /\ rt = RtIdle
    /\ lr = LrIdle
    /\ rq = RqIdle
    /\ faults = {}
    /\ boot \in [pc : {"start"}, garbage : BOOLEAN,
                 malformed : SUBSET {"A", "B"}, failed : {FALSE}]
    /\ boot.garbage => metadata.exists /\ metadata.entries = <<>>
    /\ \A k \in boot.malformed : HasKey(metadata.entries, k)

\* TTSCache.__init__ over that directory: _load_metadata, which deletes the
\* metadata file in its except branch, then _cleanup_expired over the index
ConstructFrom(pc, op) ==
    /\ boot.pc = pc
    /\ LET loaded == IF ~metadata.exists THEN [cache |-> <<>>, failed |-> FALSE]
                     ELSE IF boot.garbage THEN [cache |-> <<>>, failed |-> TRUE]
                     ELSE load_metadata(metadata.entries, boot.malformed, <<>>,
                                        files, now, ttl_seconds)
           expired == Stale(loaded.cache, files, now, ttl_seconds)
       IN  /\ cache' = SelectSeq(loaded.cache, LAMBDA e : e \notin Range(expired))
           /\ files' = IF "unlink" \in faults THEN files
                       ELSE files \ {expired[i].file_path : i \in 1..Len(expired)}
           /\ metadata' = IF expired # <<>> THEN save_metadata(cache')
                          ELSE IF loaded.failed THEN NoMetadata
                          ELSE metadata
           /\ boot' = [boot EXCEPT !.pc = "done", !.failed = loaded.failed]
           /\ last' = Call(op, NoKey, FALSE, 0,
                           IF loaded.failed THEN "discarded" ELSE "loaded",
                           NoPath, KeysOf(expired))
    /\ hits' = 0
    /\ misses' = 0
    /\ UNCHANGED <<max_size, ttl_seconds, now, kd, sp, temp_dir, stamp, mg, rt,
                   lr, rq, faults>>

Construct == ConstructFrom("start", "init")

SpecLoad == InitLoad /\ [][Construct]_vars

\* the process ends and a new one constructs a TTSCache over the directory
\* the old store leaves, with the same arguments and at the same time
Restart == ConstructFrom("idle", "restart")

\* put with an existing source, get, cleanup and resize to a capacity of at
\* least 1, with the clock advancing; nothing else touches the directory
NextStore ==
    \/ \E k \in {"A", "B"} : Put(k, TRUE)
    \/ \E k \in {"A", "B"} : Get(k)
    \/ Cleanup
    \/ \E n \in 1..2 : Resize(n)
    \/ Tick

SpecStore == Init /\ [][NextStore]_vars

NextRestart == NextStore \/ Restart

SpecRestart == Init /\ [][NextRestart]_vars

\* two cache keys are constructed over a store that is left alone
InitKey ==
    /\ max_size = MaxCap
    /\ ttl_seconds = MaxTTL
    /\ cache = <<>>
    /\ files = {}
    /\ metadata = NoMetadata
    /\ hits = 0
    /\ misses = 0
    /\ now = 1
    /\ last = Call("init", NoKey, FALSE, 0, "init", NoPath, <<>>)
    /\ kd \in [a : KeyInputs, b : KeyInputs, da : {<<>>}, db : {<<>>},
               done : {FALSE}]
    /\ sp = SpIdle
    /\ temp_dir = NoFiles
    /\ stamp = 0
    /\ mg = MgIdle
    /\ rt = RtIdle
    /\ lr = LrIdle
    /\ rq = RqIdle
    /\ faults = {}
    /\ boot = BootIdle

\* to_hash is called on both keys
Derive ==
    /\ ~kd.done
    /\ kd' = [kd EXCEPT !.da = to_hash(kd.a), !.db = to_hash(kd.b),
                        !.done = TRUE]
    /\ UNCHANGED <<storeVars, now, last, sp, requestVars>>

NextKey == Derive

SpecKey == InitKey /\ [][NextKey]_vars

\* split_text(text) is called on a splitter with max_length; the store and
\* the key derivation are left alone. Besides the short texts there are the
\* texts of 11 letters, periods and newlines for max_length 10, the smallest
\* max_length whose 30% is a whole position
InitSplit ==
    /\ max_size = MaxCap
    /\ ttl_seconds = MaxTTL
    /\ cache = <<>>
    /\ files = {}
    /\ metadata = NoMetadata
    /\ hits = 0
    /\ misses = 0
    /\ now = 1
    /\ last = Call("init", NoKey, FALSE, 0, "init", NoPath, <<>>)
    /\ kd = KdIdle
    /\ sp \in [text : SplitTexts, max_length : 1..MaxChunkLen,
               remaining_text : {<<>>}, chunks : {<<>>}, pc : {"call"},
               rule : {"-"}, cuts : {0}]
             \cup
             [text : [1..11 -> {"a", ".", "\n"}], max_length : {10},
              remaining_text : {<<>>}, chunks : {<<>>}, pc : {"call"},
              rule : {"-"}, cuts : {0}]
    /\ temp_dir = NoFiles
    /\ stamp = 0
    /\ mg = MgIdle
    /\ rt = RtIdle
    /\ lr = LrIdle
    /\ rq = RqIdle
    /\ faults = {}
    /\ boot = BootIdle

\* split_text up to the loop: the text is trimmed, and returned as the only
\* chunk when it is not longer than max_length
SplitBegin ==
    /\ sp.pc = "call"
    /\ sp' = IF Len(strip(sp.text)) <= sp.max_length
             THEN [sp EXCEPT !.chunks = short_text(sp.text), !.pc = "done",
                             !.rule = "short"]
             ELSE [sp EXCEPT !.remaining_text = strip(sp.text), !.pc = "loop"]
    /\ UNCHANGED <<storeVars, now, last, kd, requestVars>>

\* one iteration of while remaining_text
SplitCut ==
    /\ sp.pc = "loop"
    /\ sp' = IF sp.remaining_text = <<>>
             THEN [sp EXCEPT !.pc = "done"]
             ELSE IF Len(sp.remaining_text) <= sp.max_length
             THEN [sp EXCEPT !.chunks = Append(@, sp.remaining_text),
                             !.pc = "done", !.rule = "rest",
                             !.cuts = @ + 1]
             ELSE LET found == SplitSearch(sp.remaining_text, sp.max_length)
                      split_point == forced_cut(found.point, sp.max_length)
                      chunk == take_chunk(sp.remaining_text, split_point)
                  IN  [sp EXCEPT
                         !.chunks = IF chunk # <<>> THEN Append(@, chunk) ELSE @,
                         !.remaining_text = drop_chunk(sp.remaining_text,
                                                       split_point),
                         !.rule = found.rule,
                         !.cuts = @ + 1]
    /\ UNCHANGED <<storeVars, now, last, kd, requestVars>>

NextSplit == SplitBegin \/ SplitCut

SpecSplit == InitSplit /\ [][NextSplit]_vars

\* the artifact files a merge may be given
MergePool == {<<"tts", i>> : i \in 1..MaxFiles}

\* merge_audio_files is called on a list of up to MaxFiles paths; each file of
\* the pool holds the audio of some text or does not exist
InitMerge ==
    /\ max_size = MaxCap
    /\ ttl_seconds = MaxTTL
    /\ cache = <<>>
    /\ files = {}
    /\ metadata = NoMetadata
    /\ hits = 0
    /\ misses = 0
    /\ now = 1
    /\ last = Call("init", NoKey, FALSE, 0, "init", NoPath, <<>>)
    /\ kd = KdIdle
    /\ sp = SpIdle
    /\ \E present \in SUBSET MergePool :
         temp_dir \in [present -> {synth(k) : k \in Keys}]
    /\ stamp = MaxFiles
    /\ mg \in [file_paths : UNION {[1..m -> MergePool] : m \in 0..MaxFiles},
               calls : {<<>>}]
    /\ rt = RtIdle
    /\ lr = LrIdle
    /\ rq = RqIdle
    /\ faults = {}
    /\ boot = BootIdle

\* merge_audio_files(file_paths, output_format, output_dir)
MergeCall(mode) ==
    /\ Len(mg.calls) < MaxMerges
    /\ LET m == merge_audio_files(mg.file_paths, temp_dir, files, mode,
                                  stamp + 1)
       IN  /\ temp_dir' = m.temp_dir
           /\ stamp' = stamp + 1
           /\ mg' = [mg EXCEPT !.calls = Append(@, [mode |-> mode,
                                                    raised |-> m.raised,
                                                    ret |-> m.path])]
    /\ UNCHANGED <<storeVars, now, last, kd, sp, rt, lr,
                   restVars>>

NextMerge == \E mode \in MergeModes : MergeCall(mode)

SpecMerge == InitMerge /\ [][NextMerge]_vars

\* generate_speech(text, output_mode="file") is called on a client whose
\* configuration has max_text_length
InitRoute ==
    /\ max_size = MaxCap
    /\ ttl_seconds = MaxTTL
    /\ cache = <<>>
    /\ files = {}
    /\ metadata = NoMetadata
    /\ hits = 0
    /\ misses = 0
    /\ now = 1
    /\ last = Call("init", NoKey, FALSE, 0, "init", NoPath, <<>>)
    /\ kd = KdIdle
    /\ sp = SpIdle
    /\ temp_dir = NoFiles
    /\ stamp = 0
    /\ mg = MgIdle
    /\ rt \in [text : RequestTexts, max_text_length : 1..MaxLimit,
               pc : {"call"}, route : {"-"}, error : {"-"},
               processed_text : {<<>>}]
    /\ lr = LrIdle
    /\ rq = RqIdle
    /\ faults = {}
    /\ boot = BootIdle

\* TTSClient.generate_speech up to the choice between _generate_long_speech
\* and _generate_single_speech
GenerateSpeech ==
    /\ rt.pc = "call"
    /\ LET validated_params == validate_tts_parameters(rt.text,
                                                       rt.max_text_length)
           processed_text == normalize_text_for_speech(validated_params.text)
       IN  rt' = IF ~validated_params.ok
                 THEN [rt EXCEPT !.pc = "done", !.route = "rejected",
                                 !.error = validated_params.error]
                 ELSE [rt EXCEPT !.pc = "done",
                                 !.processed_text = processed_text,
                                 !.route = IF Len(processed_text)
                                              > rt.max_text_length
                                           THEN "long" ELSE "single"]
    /\ UNCHANGED <<storeVars, now, last, kd, sp, temp_dir, stamp, mg, lr,
                   restVars>>

NextRoute == GenerateSpeech

SpecRoute == InitRoute /\ [][NextRoute]_vars

\* _generate_long_speech is called with text_chunks = chunks on a client whose
\* cache is empty or holds the artifact of "A" from an earlier request; the
\* tool call asked for merging or not
InitLong ==
    /\ max_size \in 1..MaxCap
    /\ ttl_seconds = MaxTTL
    /\ \E warm \in BOOLEAN :
         /\ cache = IF warm THEN <<NewEntry("A", CachePath("A"), 1)>> ELSE <<>>
         /\ files = IF warm THEN {CachePath("A")} ELSE {}
         /\ metadata = IF warm THEN save_metadata(cache) ELSE NoMetadata
    /\ hits = 0
    /\ misses = 0
    /\ now = 1
    /\ last = Call("init", NoKey, FALSE, 0, "init", NoPath, <<>>)
    /\ kd = KdIdle
    /\ sp = SpIdle
    /\ temp_dir = NoFiles
    /\ stamp = 0
    /\ mg = MgIdle
    /\ rt = RtIdle
    /\ \E chunks \in UNION {[1..n -> Keys] : n \in 2..MaxChunks} :
         lr \in [chunks : {chunks}, enable_cache : BOOLEAN,
                 merge_long_audio : BOOLEAN,
                 task : {[i \in 1..Len(chunks) |-> NewTask]},
                 sem : {MaxConcurrent}, order : {<<>>}, pc : {"gather"},
                 file_paths : {<<>>}, result : {<<>>},
                 response : {NoResponse}]
    /\ rq = RqIdle
    /\ faults = {}
    /\ boot = BootIdle

\* _generate_single_speech up to the external call, with the cache consulted
\* (use_cache) or not
LookupChunk(i, use_cache) ==
    /\ IF use_cache THEN GetStore(lr.chunks[i])
       ELSE UNCHANGED <<storeVars, last>>
    /\ lr' = IF use_cache /\ last'.ret # NoPath
             THEN [lr EXCEPT !.task[i] = [pc |-> "done", ret |-> last'.ret,
                                          wrote |-> NoPath,
                                          events |-> <<"lookup", "hit",
                                                       "return">>],
                             !.order = Append(@, i)]
             ELSE [lr EXCEPT !.task[i].pc = "calling",
                             !.task[i].events =
                                IF use_cache THEN <<"lookup", "miss", "call">>
                                ELSE <<"call">>,
                             !.sem = @ - 1]
    /\ UNCHANGED <<now, kd, sp, temp_dir, stamp, mg, rt,
                   restVars>>

\* a chunk task that consults the cache whatever the caller asked for
EnterChunk_ignoring_flag(i) == LookupChunk(i, TRUE)

\* a chunk task inside the semaphore: _generate_single_speech up to its await
\* of the external call; a cache hit returns the cached path and leaves the
\* semaphore at once
EnterChunk(i) == LookupChunk(i, lr.enable_cache)

\* a first step that enters without a permit
TaskStart_unbounded(i) ==
    /\ lr.pc = "gather"
    /\ i \in 1..Len(lr.task)
    /\ lr.task[i].pc = "new"
    /\ \A j \in 1..(i - 1) : lr.task[j].pc # "new"
    /\ EnterChunk(i)

\* the first step of chunk task i; the event loop starts the tasks in list
\* order; a task that finds no free permit waits
TaskStart(i) ==
    /\ lr.pc = "gather"
    /\ i \in 1..Len(lr.task)
    /\ lr.task[i].pc = "new"
    /\ \A j \in 1..(i - 1) : lr.task[j].pc # "new"
    /\ IF lr.sem > 0 /\ \A j \in 1..Len(lr.task) : lr.task[j].pc # "queued"
       THEN EnterChunk(i)
       ELSE /\ lr' = [lr EXCEPT !.task[i].pc = "queued"]
            /\ UNCHANGED <<storeVars, now, last, kd, sp, temp_dir, stamp, mg,
                           rt, restVars>>

\* the longest waiting task takes a permit that was released
TaskResume(i) ==
    /\ i \in 1..Len(lr.task)
    /\ lr.task[i].pc = "queued"
    /\ \A j \in 1..Len(lr.task) : lr.task[j].pc # "new"
    /\ \A j \in 1..(i - 1) : lr.task[j].pc # "queued"
    /\ lr.sem > 0
    /\ EnterChunk(i)

\* _generate_single_speech after the external call has returned audio: the
\* file is written, put in the cache (store) or not, and its path returned
FinishChunk(i, store) ==
    /\ i \in 1..Len(lr.task)
    /\ lr.task[i].pc = "calling"
    /\ \A j \in 1..Len(lr.task) : lr.task[j].pc # "new"
    /\ temp_dir' = (<<"tts", stamp + 1>> :> synth(lr.chunks[i])) @@ temp_dir
    /\ stamp' = stamp + 1
    /\ IF store THEN PutStore(lr.chunks[i], TRUE)
       ELSE UNCHANGED <<storeVars, last>>
    /\ lr' = [lr EXCEPT !.task[i] = [pc |-> "done",
                                     ret |-> <<"tts", stamp + 1>>,
                                     wrote |-> <<"tts", stamp + 1>>,
                                     events |-> lr.task[i].events \o
                                        (IF store
                                         THEN <<"write", "store", "return">>
                                         ELSE <<"write", "return">>)],
                        !.sem = @ + 1,
                        !.order = Append(@, i)]
    /\ UNCHANGED <<now, kd, sp, mg, rt,
                   restVars>>

\* a chunk whose artifact is never put in the cache
ApiReturns_unstored(i) == FinishChunk(i, FALSE)

\* the external call of task i returns audio: the file is written, stored in
\* the cache when caching is on, and its path is the task's result
ApiReturns(i) == FinishChunk(i, lr.enable_cache)

\* the external call of task i raises
ApiFails(i) ==
    /\ i \in 1..Len(lr.task)
    /\ lr.task[i].pc = "calling"
    /\ \A j \in 1..Len(lr.task) : lr.task[j].pc # "new"
    /\ lr' = [lr EXCEPT !.task[i].pc = "failed", !.sem = @ + 1]
    /\ UNCHANGED <<storeVars, now, last, kd, sp, temp_dir, stamp, mg, rt,
                   restVars>>

\* every task has returned: gather gives the list to _generate_long_speech,
\* which returns it; handle_generate_speech merges on request and answers
\* (cleanup_old_files finds no file older than a day)
GatherReturns(mode) ==
    /\ lr.pc = "gather"
    /\ \A i \in 1..Len(lr.task) : lr.task[i].pc = "done"
    /\ LET file_paths == gather(lr.task, lr.order)
           ms == merge_step(file_paths, lr.merge_long_audio, temp_dir, files,
                            mode, stamp + 1)
       IN  /\ temp_dir' = ms.temp_dir
           /\ stamp' = stamp + 1
           /\ lr' = [lr EXCEPT
                       !.pc = "returned",
                       !.file_paths = file_paths,
                       !.result = file_paths,
                       !.response =
                          IF ms.failed
                          THEN [NoResponse EXCEPT
                                  !.merge_raised = ms.merge_raised]
                          ELSE [success |-> TRUE,
                                file_path |-> ms.file_paths[1],
                                file_count |-> Len(ms.file_paths),
                                merged |-> lr.merge_long_audio,
                                merge_raised |-> ms.merge_raised]]
    /\ UNCHANGED <<storeVars, now, last, kd, sp, mg, rt,
                   restVars>>

\* a task has raised: gather raises in _generate_long_speech, whose handler
\* unlinks the paths of file_paths and raises; the tool call answers with an
\* error; the other tasks are not cancelled
GatherRaises ==
    /\ lr.pc = "gather"
    /\ \E i \in 1..Len(lr.task) : lr.task[i].pc = "failed"
    /\ temp_dir' = [p \in (DOMAIN temp_dir) \ Range(lr.file_paths)
                    |-> temp_dir[p]]
    /\ lr' = [lr EXCEPT !.pc = "raised", !.response = NoResponse]
    /\ UNCHANGED <<storeVars, now, last, kd, sp, stamp, mg, rt,
                   restVars>>

NextLong ==
    \/ \E i \in 1..MaxChunks : TaskStart(i)
    \/ \E i \in 1..MaxChunks : TaskResume(i)
    \/ \E i \in 1..MaxChunks : ApiReturns(i)
    \/ \E i \in 1..MaxChunks : ApiFails(i)
    \/ \E mode \in MergeModes : GatherReturns(mode)
    \/ GatherRaises

SpecLong == InitLong /\ [][NextLong]_vars

\* the texts of a tool call
ToolTexts == StringsUpTo({"a", " "}, MaxToolLen)

\* the cache key of a validated request
RequestKey(v, text) ==
    to_hash([text |-> text, voice |-> v.voice, speed |-> v.speed,
             response_format |-> v.response_format,
             instructions |-> v.instructions])

\* the key of the request "a" with no other argument
WarmKey ==
    RequestKey(validate_parameters([NoArgs EXCEPT !.text = <<"a">>],
                                   Given("file"), ToolLimit), <<"a">>)

\* handle_generate_speech is called with arguments on a server whose cache is
\* empty or holds the artifact of the request "a"
InitTool ==
    /\ max_size = MaxCap
    /\ ttl_seconds = MaxTTL
    /\ \E warm \in BOOLEAN :
         /\ cache = IF warm THEN <<NewEntry(WarmKey, CachePath(WarmKey), 1)>>
                    ELSE <<>>
         /\ files = IF warm THEN {CachePath(WarmKey)} ELSE {}
         /\ metadata = IF warm THEN save_metadata(cache) ELSE NoMetadata
    /\ hits = 0
    /\ misses = 0
    /\ now = 1
    /\ last = Call("init", NoKey, FALSE, 0, "init", NoPath, <<>>)
    /\ kd = KdIdle
    /\ sp = SpIdle
    /\ temp_dir = NoFiles
    /\ stamp = 0
    /\ mg = MgIdle
    /\ rt = RtIdle
    /\ lr = LrIdle
    /\ \E args \in [text : ToolTexts,
                    voice : {Absent, Given("alloy"), Given("bogus")},
                    speed : {NoSpeed, NotNum, Num(0), Num(MinSpeed - 1),
                             Num(MinSpeed), Num(MaxSpeed), Num(MaxSpeed + 1)},
                    response_format : {Absent, Given("wav"), Given("exe")},
                    output_mode : {Absent, Given("file"), Given("play"),
                                   Given("both"), Given("loud")},
                    preset : {Absent, Given("calm_male"), Given("nope")},
                    enable_cache : BOOLEAN] :
         rq = [RqIdle EXCEPT !.args = args, !.pc = "call"]
    /\ faults = {}
    /\ boot = BootIdle

\* the answer of the handler when generate_speech was not called or has
\* returned file_paths: estimate_generation_time(text, speed or 1.0) divides
\* by the speed and raises TypeError for a speed that is not a number
Answer(a, file_paths) ==
    IF a.speed.some /\ ~a.speed.number THEN Failure("type_error")
    ELSE Success(file_paths)

\* handle_generate_speech up to its answer or to the await of the external
\* call of _generate_single_speech
ToolCall ==
    /\ rq.pc = "call"
    /\ LET a == rq.args
           mode == a.output_mode
           v == validate_parameters(a, IF mode = Given("file") THEN Given("file")
                                       ELSE Given("play"), ToolLimit)
           text == normalize_text_for_speech(v.text)
           key == RequestKey(v, text)
       IN  IF a.text = <<>>
           \* if not text: raise ValueError, before the try block
           THEN /\ rq' = [rq EXCEPT !.pc = "done",
                                    !.response = Exception("no_text")]
                /\ UNCHANGED <<storeVars, last>>
           ELSE IF mode \in {Given("play"), Given("both")}
           \* generate_speech_stream validates and returns a stream object;
           \* AudioPlayer.play(stream) raises TypeError in Path(stream)
           THEN /\ rq' = [rq EXCEPT
                            !.pc = "done",
                            !.response = IF v.ok THEN Failure("type_error")
                                         ELSE Failure(v.error)]
                /\ UNCHANGED <<storeVars, last>>
           ELSE IF mode = Given("file")
           THEN IF ~v.ok
                THEN /\ rq' = [rq EXCEPT !.pc = "done",
                                         !.response = Failure(v.error)]
                     /\ UNCHANGED <<storeVars, last>>
                ELSE /\ IF a.enable_cache THEN GetStore(key)
                        ELSE UNCHANGED <<storeVars, last>>
                     /\ rq' = IF a.enable_cache /\ last'.ret # NoPath
                              THEN [rq EXCEPT
                                      !.pc = "done", !.text = text,
                                      !.key = key,
                                      !.events = <<"lookup", "hit", "return">>,
                                      !.response = Answer(a, <<last'.ret>>)]
                              ELSE [rq EXCEPT
                                      !.pc = "calling", !.text = text,
                                      !.key = key,
                                      !.events = IF a.enable_cache
                                                 THEN <<"lookup", "miss",
                                                        "call">>
                                                 ELSE <<"call">>]
           \* no output mode, or one the handler does not know: nothing is
           \* played or synthesized and result stays []
           ELSE /\ rq' = [rq EXCEPT !.pc = "done",
                                    !.response = Answer(a, <<>>)]
                /\ UNCHANGED <<storeVars, last>>
    /\ UNCHANGED <<now, kd, sp, temp_dir, stamp, mg, rt, lr, faults, boot>>

\* the external call returns audio: the file is written, put in the cache
\* when caching is on, and the handler answers with its path
ToolApiReturns ==
    /\ rq.pc = "calling"
    /\ temp_dir' = (<<"tts", stamp + 1>> :> synth(rq.text)) @@ temp_dir
    /\ stamp' = stamp + 1
    /\ IF rq.args.enable_cache THEN PutStore(rq.key, TRUE)
       ELSE UNCHANGED <<storeVars, last>>
    /\ rq' = [rq EXCEPT
                !.pc = "done",
                !.events = @ \o (IF rq.args.enable_cache
                                 THEN <<"write", "store", "return">>
                                 ELSE <<"write", "return">>),
                !.response = Answer(rq.args, << <<"tts", stamp + 1>> >>)]
    /\ UNCHANGED <<now, kd, sp, mg, rt, lr, faults, boot>>

\* the external call raises an exception with a message: the except branch
\* of _generate_single_speech raises the classified error, and the handler
\* answers with it
ToolApiFails(message) ==
    /\ rq.pc = "calling"
    /\ rq' = [rq EXCEPT !.pc = "done", !.events = Append(@, "raise"),
                        !.failure = message,
                        !.response = Failure(classify(message))]
    /\ UNCHANGED <<storeVars, now, last, kd, sp, temp_dir, stamp, mg, rt, lr,
                   faults, boot>>

NextTool ==
    \/ ToolCall
    \/ ToolApiReturns
    \/ \E message \in SUBSET Phrases : ToolApiFails(message)

SpecTool == InitTool /\ [][NextTool]_vars

TypeOK ==
    /\ max_size \in 0..MaxCap
    /\ Len(cache) <= Cardinality(Keys)

\* ------------------------------------------------------------------ claims
PathsOf(c) == {c[i].file_path : i \in 1..Len(c)}

KeySet(c) == {c[i].key : i \in 1..Len(c)}

\* the age of entry e does not exceed the TTL
Fresh(e) == now - e.created_at <= ttl_seconds

C2_EvictsOldestUse ==
    [][\A k \in Keys :
         (/\ last'.op = "put" /\ last'.key = k /\ last'.branch = "stored"
          /\ ~HasKey(cache, k) /\ Len(cache) = max_size)
         => \E i \in 1..Len(cache) :
              /\ KeySet(cache') = (KeySet(cache) \ {cache[i].key}) \cup {k}
              /\ Len(cache') = Len(cache)
              /\ \A j \in 1..Len(cache) :
                   cache[i].last_accessed <= cache[j].last_accessed]_vars

\* C3: get returns a path only for an entry whose artifact file exists and
\* whose age is within the TTL.
C3_GetServesLiveEntry ==
    (last.op = "get" /\ last.ret # NoPath)
    => /\ last.ret \in files
       /\ \E i \in 1..Len(cache) :
            /\ cache[i].key = last.key
            /\ cache[i].file_path = last.ret
            /\ Fresh(cache[i])

\* a hit on an entry whose age is exactly the TTL, after a file was deleted
\* from outside
C3_Witness ==
    /\ last.op = "get" /\ last.ret # NoPath
    /\ \E i \in 1..Len(cache) :
         cache[i].key = last.key /\ now - cache[i].created_at = ttl_seconds
    /\ \E j \in 1..Len(cache) : cache[j].file_path \notin files

\* C4: get on a key whose entry is expired or whose file is gone returns a
\* miss, removes exactly that entry, leaves its file absent, counts one miss
\* and changes no other entry or file.
C4_GetPurgesStaleEntry ==
    [][\A i \in 1..Len(cache) :
         (/\ last'.op = "get" /\ last'.key = cache[i].key
          /\ (~Fresh(cache[i]) \/ cache[i].file_path \notin files))
         => /\ last'.ret = NoPath
            /\ cache' = SelectSeq(cache, LAMBDA e : e.key # cache[i].key)
            /\ files' = files \ {cache[i].file_path}
            /\ misses' = misses + 1
            /\ hits' = hits]_vars

\* an expired entry whose file was still on disk has just been purged while
\* another entry stays in the index
C4_Witness ==
    /\ last.op = "get" /\ last.branch = "purge" /\ cache # <<>>
    /\ metadata.exists
    /\ \E i \in 1..Len(metadata.entries) :
         /\ metadata.entries[i].key = last.key
         /\ now - metadata.entries[i].created_at > ttl_seconds

\* C5: with max_size >= 1, a put with an existing source followed at once by
\* a get of the same key is a hit on the copy in the cache directory, and the
\* entry's access_count is then 1.
C5_PutThenGetHits ==
    [][(/\ last.op = "put" /\ last.src /\ max_size >= 1
        /\ last'.op = "get" /\ last'.key = last.key)
       => /\ last'.ret = CachePath(last.key)
          /\ \E i \in 1..Len(cache') :
               cache'[i].key = last.key /\ cache'[i].access_count = 1]_vars

\* C6: a put stamps the entry with the time of the put, no get changes the
\* creation time of an entry that stays in the index, and a get of an entry
\* older than the TTL is a miss.
C6_ExpiryIgnoresAccess ==
    [][\A k \in Keys :
         /\ (last'.op = "put" /\ last'.key = k /\ last'.branch = "stored")
            => \E i \in 1..Len(cache') :
                 cache'[i].key = k /\ cache'[i].created_at = now
         /\ (last'.op = "get")
            => \A i \in 1..Len(cache), j \in 1..Len(cache') :
                 cache[i].key = cache'[j].key
                 => cache[i].created_at = cache'[j].created_at
         /\ (/\ last'.op = "get" /\ last'.key = k
             /\ \E i \in 1..Len(cache) :
                  cache[i].key = k /\ now - cache[i].created_at > ttl_seconds)
            => last'.ret = NoPath /\ ~HasKey(cache', k)]_vars

\* a hit later than the entry's creation has left the creation time alone
C6_Witness ==
    /\ last.op = "get" /\ last.branch = "hit"
    /\ \E i \in 1..Len(cache) :
         /\ cache[i].key = last.key
         /\ cache[i].access_count >= 2
         /\ cache[i].last_accessed > cache[i].created_at

\* C7: a put whose source file does not exist changes nothing of the store:
\* index, artifact files, metadata file and counters.
C7_PutMissingSourceNoOp ==
    [][(last'.op = "put" /\ ~last'.src) => UNCHANGED storeVars]_vars

\* a put with a missing source on a store that is full
C7_Witness ==
    /\ last.op = "put" /\ ~last.src
    /\ Len(cache) = max_size /\ max_size >= 1 /\ ~HasKey(cache, last.key)

C9_ResizeKeepsMostRecent ==
    [][(last'.op = "resize")
       => LET removed == {i \in 1..Len(cache) : ~HasKey(cache', cache[i].key)}
          IN  /\ max_size' = last'.n
              /\ Len(cache') = Min(Len(cache), last'.n)
              /\ cache' = SelectSeq(cache, LAMBDA e : HasKey(cache', e.key))
              /\ \A i \in removed, j \in (1..Len(cache)) \ removed :
                   cache[i].last_accessed <= cache[j].last_accessed
              /\ \A i \in removed : cache[i].file_path \notin files']_vars

\* the normalized fields of a cache key as the claim gives them: text trimmed,
\* speed rounded to 2 decimals, voice, format, instructions trimmed when
\* given and absent when not given
NormalizedFields(k) ==
    [text |-> strip(k.text),
     voice |-> k.voice,
     speed |-> round2(k.speed),
     response_format |-> k.response_format,
     instructions |-> IF k.instructions.some
                      THEN Some(strip(k.instructions.val))
                      ELSE NoneStr]

\* C10: two cache keys have the same digest exactly when their normalized
\* fields are equal; instructions that are absent and instructions that are
\* empty after trimming give different digests.
C10_DigestIffNormalizedEqual ==
    kd.done
    => ((kd.da = kd.db) <=> (NormalizedFields(kd.a) = NormalizedFields(kd.b)))

\* ------------------------------------------------------ claims: splitter
RemoveWhitespace(str) == SelectSeq(str, LAMBDA c : c \notin Whitespace)

RECURSIVE Flatten(_)
Flatten(ss) == IF ss = <<>> THEN <<>> ELSE Head(ss) \o Flatten(Tail(ss))

\* the chunks are consecutive pieces of the text, in order, and every
\* character between, before and after them is whitespace
RECURSIVE InOrder(_, _)
InOrder(text, chunks) ==
    LET t == lstrip(text)
    IN  IF chunks = <<>> THEN t = <<>>
        ELSE /\ Len(Head(chunks)) <= Len(t)
             /\ SubSeq(t, 1, Len(Head(chunks))) = Head(chunks)
             /\ InOrder(SubSeq(t, Len(Head(chunks)) + 1, Len(t)), Tail(chunks))

\* C11: for every text and every max_length >= 1, each chunk split returns is
\* at most max_length characters long.
C11_ChunkWithinMaxLength ==
    \A i \in 1..Len(sp.chunks) : Len(sp.chunks[i]) <= sp.max_length

\* three or more chunks, one of them max_length >= 2 characters long
C11_Witness ==
    /\ sp.pc = "done" /\ Len(sp.chunks) >= 3 /\ sp.max_length >= 2
    /\ \E i \in 1..Len(sp.chunks) : Len(sp.chunks[i]) = sp.max_length

\* C12: for a text longer than max_length the chunks are non-overlapping
\* pieces of the text in their original order, the characters in no chunk are
\* whitespace at chunk boundaries, and the chunks with whitespace removed
\* equal the text with whitespace removed.
C12_ChunksRebuildText ==
    (sp.pc = "done" /\ Len(sp.text) > sp.max_length)
    => /\ InOrder(sp.text, sp.chunks)
       /\ RemoveWhitespace(Flatten(sp.chunks)) = RemoveWhitespace(sp.text)

\* three or more chunks, and whitespace was dropped between two of them
C12_Witness ==
    /\ sp.pc = "done" /\ Len(sp.chunks) >= 3
    /\ Len(Flatten(sp.chunks)) < Len(strip(sp.text))

\* C13: for a text of at most max_length characters split returns exactly
\* one chunk, the trimmed input.
C13_ShortTextOneChunk ==
    (sp.pc = "done" /\ Len(sp.text) <= sp.max_length)
    => sp.chunks = <<strip(sp.text)>>

\* a short text with whitespace around it
C13_Witness ==
    /\ sp.pc = "done" /\ Len(sp.text) <= sp.max_length
    /\ strip(sp.text) # <<>> /\ Len(strip(sp.text)) + 2 <= Len(sp.text)

\* C14: split terminates: every iteration of the cutting loop either ends the
\* loop or leaves a strictly shorter remaining text, whichever rule gave the
\* split point, so the loop runs at most once per character of the text.
C14_EveryCutMakesProgress ==
    /\ [](sp.cuts <= Len(sp.text))
    /\ [][(sp.pc = "loop")
          => \/ sp'.pc = "done"
             \/ Len(sp'.remaining_text) < Len(sp.remaining_text)]_vars

\* the loop has ended after three or more iterations, the last cut a forced one
C14_Witness ==
    /\ sp.pc = "done" /\ sp.cuts >= 3
    /\ Len(sp.chunks) >= 3 /\ Len(sp.chunks[Len(sp.chunks)]) = 1

\* the text contains none of the boundaries the claim lists: paragraph
\* separator, sentence ending, newline, comma delimiter, space
NoListedBoundary(text) ==
    /\ \A i \in 1..Len(text) : text[i] \notin {".", "!", "\n", " "}
    /\ rfind(text, <<",", " ">>) = -1

\* C15 as stated: a text longer than max_length with no paragraph separator,
\* sentence ending, newline, comma delimiter or space is split into chunks of
\* exactly max_length characters, except possibly the last.
C15_ForcedChunksExact ==
    (sp.pc = "done" /\ Len(sp.text) > sp.max_length /\ NoListedBoundary(sp.text))
    => \A i \in 1..(Len(sp.chunks) - 1) : Len(sp.chunks[i]) = sp.max_length

\* C15 amended: the same for a text that, besides, contains no whitespace
\* character of any kind (no tab either).
C15_ForcedChunksExactNoWhitespace ==
    (/\ sp.pc = "done" /\ Len(sp.text) > sp.max_length
     /\ NoListedBoundary(sp.text)
     /\ \A i \in 1..Len(sp.text) : sp.text[i] \notin Whitespace)
    => \A i \in 1..(Len(sp.chunks) - 1) : Len(sp.chunks[i]) = sp.max_length

\* a text of letters and commas cut into three or more chunks, the last one
\* shorter than max_length
C15_Witness ==
    /\ sp.pc = "done" /\ NoListedBoundary(sp.text)
    /\ \A i \in 1..Len(sp.text) : sp.text[i] \notin Whitespace
    /\ \E i \in 1..Len(sp.text) : sp.text[i] = ","
    /\ Len(sp.chunks) >= 3
    /\ Len(sp.chunks[Len(sp.chunks)]) < sp.max_length

\* -------------------------------------------------------- claims: merger
\* the frames of the files of a list, file after file
RECURSIVE FramesOf(_, _)
FramesOf(paths, tmp) ==
    IF paths = <<>> THEN <<>>
    ELSE SelectSeq(tmp[Head(paths)], LAMBDA b : b # Header)
         \o FramesOf(Tail(paths), tmp)

RECURSIVE BytesOf(_, _)
BytesOf(paths, tmp) ==
    IF paths = <<>> THEN <<>> ELSE tmp[Head(paths)] \o BytesOf(Tail(paths), tmp)

\* C16: a merge of two or more artifacts that returns a path has written one
\* file whose audio is the audio of the first input, then of the second, and
\* so on in input order, on the decoding path and on the byte concatenation
\* path; on the latter the bytes are the inputs' bytes in input order.
C16_MergeKeepsInputOrder ==
    \A c \in 1..Len(mg.calls) :
      (Len(mg.file_paths) >= 2 /\ ~mg.calls[c].raised)
      => /\ mg.calls[c].ret \in DOMAIN temp_dir
         /\ mg.calls[c].ret \notin Range(mg.file_paths)
         /\ SelectSeq(temp_dir[mg.calls[c].ret], LAMBDA b : b # Header)
            = FramesOf(mg.file_paths, temp_dir)
         /\ mg.calls[c].mode = "no_pydub"
            => temp_dir[mg.calls[c].ret] = BytesOf(mg.file_paths, temp_dir)

\* three files with three different contents were merged on both paths
C16_Witness ==
    /\ Len(mg.file_paths) = 3 /\ Len(mg.calls) = 2
    /\ ~mg.calls[1].raised /\ ~mg.calls[2].raised
    /\ {mg.calls[1].mode, mg.calls[2].mode} = {"pydub", "no_pydub"}
    /\ Cardinality({temp_dir[mg.file_paths[i]] : i \in 1..3}) = 3

\* ------------------------------------------------------- claims: request
\* C18: a generate_speech request whose text is longer than the configured
\* maximum text length passes validation and takes the split path; a request
\* whose (non-blank) text is at or under the maximum takes the single-chunk
\* path.
C18_LongTextTakesSplitPath ==
    (rt.pc = "done")
    => /\ (Len(rt.text) > rt.max_text_length) => rt.route = "long"
       /\ (Len(rt.text) <= rt.max_text_length
           /\ \E i \in 1..Len(rt.text) : rt.text[i] # " ")
          => rt.route = "single"

\* no request takes the split path
C18_SplitPathNeverTaken == rt.route # "long"

\* a non-blank text one character over the maximum has been rejected
C18_Witness ==
    /\ rt.pc = "done" /\ rt.route = "rejected" /\ rt.error = "too_long"
    /\ Len(rt.text) = rt.max_text_length + 1

\* C17: when the merge of a multi-chunk result fails, the request does not
\* fail: its answer is a success that carries the path of the first chunk's
\* artifact, not a merged path.
C17_MergeFailureGivesFirstChunk ==
    (lr.pc = "returned" /\ Len(lr.result) >= 2 /\ lr.response.merge_raised)
    => /\ lr.response.success
       /\ lr.response.file_path = lr.task[1].ret
       /\ lr.response.file_path[1] \notin {"merged", "concatenated"}

\* the merge of three synthesized chunks has failed and the answer carries
\* the file the first chunk task wrote
C17_Witness ==
    /\ lr.pc = "returned" /\ lr.response.merge_raised /\ Len(lr.result) = 3
    /\ lr.response.success
    /\ lr.response.file_path = lr.task[1].wrote
    /\ lr.response.file_path \in DOMAIN temp_dir

\* C19: once a long-text request has returned its error because a chunk's
\* synthesis failed, no artifact file written for any other chunk of the
\* request is on disk, whatever the order in which the tasks completed.
C19_FailedRequestLeavesNoArtifact ==
    (lr.pc = "raised")
    => \A i \in 1..Len(lr.task) :
         lr.task[i].wrote # NoPath => lr.task[i].wrote \notin DOMAIN temp_dir

\* C20: for a long-text request that succeeds, the i-th path of the returned
\* list is the result of the i-th chunk task, the artifact of the i-th chunk:
\* the file that task wrote or the cached artifact of the chunk's key,
\* holding the audio of that chunk.
C20_ResultInSplitOrder ==
    (lr.pc = "returned")
    => /\ Len(lr.result) = Len(lr.chunks)
       /\ \A i \in 1..Len(lr.chunks) :
            /\ lr.result[i] = lr.task[i].ret
            /\ \/ lr.result[i] = lr.task[i].wrote
               \/ lr.result[i] = <<"cache_dir", lr.chunks[i]>>
            /\ lr.result[i] \in DOMAIN temp_dir
               => SelectSeq(temp_dir[lr.result[i]], LAMBDA b : b # Header)
                  = <<lr.chunks[i]>>

\* three different chunks were synthesized and the task of the last chunk
\* completed first
C20_Witness ==
    /\ lr.pc = "returned" /\ Len(lr.chunks) = 3
    /\ Cardinality(Range(lr.chunks)) = 3
    /\ lr.order[1] = 3
    /\ \A i \in 1..3 : lr.result[i] \in DOMAIN temp_dir

\* C21: in a request made with caching disabled, every chunk that returns was
\* synthesized by a call to the external service, with no cache lookup and no
\* cache store, and no step of the request changes the entries of the cache
\* or their order, the hit and miss counters, the artifact files or the
\* metadata file.
C21_DisabledCacheUntouched ==
    /\ [](~lr.enable_cache
          => \A i \in 1..Len(lr.task) :
               lr.task[i].pc = "done"
               => /\ lr.task[i].events = <<"call", "write", "return">>
                  /\ lr.task[i].wrote # NoPath
                  /\ lr.task[i].ret = lr.task[i].wrote)
    /\ [][~lr.enable_cache
          => UNCHANGED <<cache, files, metadata, hits, misses>>]_vars

\* a request without caching has returned three chunks, one of them "A",
\* whose artifact the cache holds
C21_Witness ==
    /\ lr.pc = "returned" /\ ~lr.enable_cache /\ Len(lr.chunks) = 3
    /\ \E i \in 1..3 : lr.chunks[i] = "A"
    /\ HasKey(cache, "A") /\ CachePath("A") \in files
    /\ \A i \in 1..3 : lr.task[i].wrote \in DOMAIN temp_dir

\* the events of a chunk task with caching enabled: a lookup, then a hit and
\* the return, or a miss, one external call, the file, the store, the return
HitEvents == <<"lookup", "hit", "return">>

MissEvents == <<"lookup", "miss", "call", "write", "store", "return">>

IsPrefix(s, t) == Len(s) <= Len(t) /\ SubSeq(t, 1, Len(s)) = s

\* C22: with caching enabled each chunk goes lookup, then on a hit returns
\* the cached path with no external call, and on a miss makes exactly one
\* external call, then stores the artifact under the chunk's key, then
\* returns its path; a store never precedes the call and never follows a hit.
C22_LookupCallStoreReturn ==
    /\ [](lr.enable_cache
          => \A i \in 1..Len(lr.task) :
               /\ \/ IsPrefix(lr.task[i].events, HitEvents)
                  \/ IsPrefix(lr.task[i].events, MissEvents)
               /\ lr.task[i].pc = "done"
                  => \/ /\ lr.task[i].events = HitEvents
                        /\ lr.task[i].wrote = NoPath
                        /\ lr.task[i].ret = CachePath(lr.chunks[i])
                     \/ /\ lr.task[i].events = MissEvents
                        /\ lr.task[i].wrote # NoPath
                        /\ lr.task[i].ret = lr.task[i].wrote)
    /\ [][\A i \in 1..Len(lr.task) :
            /\ (lr.enable_cache /\ lr.task[i].pc = "calling"
                /\ lr'.task[i].pc = "done")
               => /\ last'.op = "put" /\ last'.key = lr.chunks[i]
                  /\ last'.branch = "stored"
                  /\ HasKey(cache', lr.chunks[i])
                  /\ EntryOf(cache', lr.chunks[i]).file_path
                     = CachePath(lr.chunks[i])
                  /\ lr'.task[i].wrote \in DOMAIN temp_dir'
            /\ (lr.task[i].pc \in {"new", "queued"}
                /\ lr'.task[i].pc \in {"done", "calling"}
                /\ lr.enable_cache)
               => /\ last'.op = "get" /\ last'.key = lr.chunks[i]
                  /\ (lr'.task[i].pc = "done") <=> (last'.ret # NoPath)
                  /\ temp_dir' = temp_dir]_vars

\* a request with caching has returned: the chunk "A" was a hit, a chunk "B"
\* was a miss and is now in the cache
C22_Witness ==
    /\ lr.pc = "returned" /\ lr.enable_cache /\ Len(lr.chunks) = 3
    /\ \E i \in 1..3 : lr.chunks[i] = "A" /\ lr.task[i].events = HitEvents
    /\ \E i \in 1..3 :
         /\ lr.chunks[i] = "B" /\ lr.task[i].events = MissEvents
         /\ HasKey(cache, "B")

\* ------------------------------------------------------- claims: tool call
\* the arguments are malformed in one of the ways the claim lists: unknown
\* voice, format or output mode, speed that is not a number of 0.25..4.0,
\* empty (blank) or oversized text, unknown preset
MalformedArgs(a) ==
    \/ a.voice.some /\ a.voice.val \notin valid_voices
    \/ a.response_format.some /\ a.response_format.val \notin valid_formats
    \/ a.output_mode.some /\ a.output_mode.val \notin valid_modes
    \/ a.speed.some /\ (\/ ~a.speed.number
                        \/ a.speed.val < MinSpeed
                        \/ a.speed.val > MaxSpeed)
    \/ \A i \in 1..Len(a.text) : a.text[i] = " "
    \/ Len(a.text) > ToolLimit
    \/ a.preset.some /\ a.preset.val \notin BUILTIN_PRESETS

\* C23: a tool call with malformed arguments is answered with an error that
\* is the validation message of its arguments (or is refused by the handler
\* for having no text), and it makes no external call, reads and writes no
\* cache entry and writes no file.
C23_MalformedRejectedFirst ==
    (rq.pc \in {"calling", "done"} /\ MalformedArgs(rq.args))
    => /\ rq.pc = "done"
       /\ \/ rq.response = Exception("no_text")
          \/ rq.response
             = Failure(validate_parameters(rq.args, rq.args.output_mode,
                                           ToolLimit).error)
       /\ rq.events = <<>>
       /\ hits = 0 /\ misses = 0
       /\ temp_dir = NoFiles

\* C24: when the external call fails, the tool call is answered with one
\* error whose category is the first of credential, quota, rate limit that
\* the failure message names, and generic when it names none; the answer
\* carries no artifact path, and the failing step adds no cache entry and
\* writes no file.
C24_FailureClassified ==
    /\ []((rq.pc = "done" /\ rq.events # <<>>
           /\ rq.events[Len(rq.events)] = "raise")
          => /\ rq.response.kind = "error"
             /\ rq.response.file_path = NoPath
             /\ rq.response.file_count = 0
             /\ rq.response.error
                = (IF "api key" \in rq.failure THEN "api_key"
                   ELSE IF "quota" \in rq.failure THEN "quota"
                   ELSE IF "rate limit" \in rq.failure THEN "rate_limit"
                   ELSE "generic")
             /\ rq.args.enable_cache => ~HasKey(cache, rq.key)
             /\ temp_dir = NoFiles)
    /\ [][(rq.pc = "calling" /\ rq'.pc = "done"
           /\ rq'.events[Len(rq'.events)] = "raise")
          => /\ UNCHANGED <<cache, files, metadata, temp_dir>>
             /\ rq'.events \in {<<"call", "raise">>,
                                <<"lookup", "miss", "call", "raise">>}]_vars

\* a cached request has failed with a message that names the quota and the
\* rate limit: the error is the quota error, after one miss
C24_Witness ==
    /\ rq.pc = "done" /\ rq.failure = {"quota", "rate limit"}
    /\ rq.response = Failure("quota")
    /\ rq.args.enable_cache /\ misses = 1 /\ cache = <<>>

\* C25: every tool call ends in a success answer that carries the path of an
\* artifact of the whole text, or in an error; no call is answered with
\* success while no audio of the text was produced.
C25_SuccessCarriesArtifact ==
    (rq.pc = "done")
    => \/ rq.response.kind \in {"error", "exception"}
       \/ /\ rq.response.kind = "success"
          /\ rq.response.file_count = 1
          /\ \/ /\ rq.response.file_path \in DOMAIN temp_dir
                /\ temp_dir[rq.response.file_path] = <<Header, rq.text>>
             \/ /\ rq.response.file_path = CachePath(rq.key)
                /\ rq.response.file_path \in files

\* ------------------------------------------- claims: failing file operations
\* C26: a file operation that fails inside get, put, resize, cleanup or clear
\* (the unlink of a file, the copy of the source) never raises to the caller,
\* and the operation still completes its update of the index: clear empties
\* it, a purge and a cleanup remove the stale entries, resize brings it down
\* to the capacity, a put whose copy succeeded inserts the key
C26_FaultsSwallowed ==
    [][/\ last'.branch # "escaped"
       /\ last'.op = "clear" => cache' = <<>>
       /\ (last'.op = "get" /\ last'.branch = "purge")
              => ~HasKey(cache', last'.key)
       /\ last'.op = "cleanup"
              => \A i \in 1..Len(cache') :
                     /\ now - cache'[i].created_at <= ttl_seconds
                     /\ cache'[i].file_path \in files'
       /\ last'.op = "resize" => Len(cache') <= max_size'
       /\ (last'.op = "put" /\ last'.branch = "stored")
              => HasKey(cache', last'.key)]_vars

\* ------------------------------------------------------ claims: construction
\* C27: if loading the metadata file fails at construction (the file cannot be
\* parsed, or one record is malformed), the metadata file is discarded and
\* the store starts with an empty index
C27_FailedLoadStartsEmpty ==
    [][(boot.pc = "start" /\ boot'.pc = "done" /\ boot'.failed)
         => (cache' = <<>> /\ ~metadata'.exists)]_vars

\* C30: after a construction over an existing cache directory no record of
\* the persisted metadata that is expired or whose file is missing is in the
\* index, and the artifact file of every expired record is gone from the disk
C30_ConstructionDropsStale ==
    [][(boot.pc = "start" /\ boot'.pc = "done")
         => \A i \in 1..Len(metadata.entries) :
              LET r == metadata.entries[i]
                  old == now - r.created_at > ttl_seconds
              IN  r.key \notin boot.malformed
                  => /\ (old \/ r.file_path \notin files) => ~HasKey(cache', r.key)
                     /\ old => r.file_path \notin files']_vars

\* --------------------------------------------------- claims: persisted index
\* C29: after every cache operation that changes the set of entries (a put,
\* an eviction, a purge by get, cleanup, resize, clear) the persisted
\* metadata lists exactly the keys of the index; no metadata file counts as
\* the empty mapping
C29_MetadataListsIndex ==
    [][KeySet(cache') # KeySet(cache)
         => KeySet(metadata'.entries) = KeySet(cache')]_vars

\* -------------------------------------------------------- claims: statistics
\* C28 as stated: every get increments exactly one of hits and misses by one,
\* no operation other than get and clear changes them, and the reported hit
\* rate is 0 when hits + misses is 0 and exactly 100 * hits / (hits + misses)
\* otherwise
C28_HitRateExact ==
    [][/\ last'.op = "get"
          => \/ hits' = hits + 1 /\ misses' = misses
             \/ hits' = hits /\ misses' = misses + 1
       /\ last'.op \notin {"get", "clear"} => hits' = hits /\ misses' = misses
       /\ last'.op = "get_stats"
          => last'.n * (hits + misses) = 10000 * hits]_vars

\* C28, amended: the counters as stated; the reported hit rate is 0 when
\* hits + misses is 0 and otherwise 100 * hits / (hits + misses) rounded to
\* the nearest hundredth of a percent
C28_HitRateRounded ==
    [][/\ last'.op = "get"
          => \/ hits' = hits + 1 /\ misses' = misses
             \/ hits' = hits /\ misses' = misses + 1
       /\ last'.op = "clear" => hits' = 0 /\ misses' = 0
       /\ last'.op \notin {"get", "clear"} => hits' = hits /\ misses' = misses
       /\ last'.op = "get_stats"
          => /\ hits + misses = 0 => last'.n = 0
             /\ 2 * (last'.n * (hits + misses) - 10000 * hits) <= hits + misses
             /\ 2 * (10000 * hits - last'.n * (hits + misses)) <= hits + misses]_vars

\* the statistics are read after two hits and one miss: the rate is 66.67
C28_Witness ==
    /\ last.op = "get_stats" /\ hits = 2 /\ misses = 1 /\ last.n = 6667

\* ------------------------------------------------------------ claims: restart
\* C31: after any sequence of put, get, resize and cleanup, a new store
\* constructed over the same cache directory with the same TTL and no clock
\* advance has an index with the keys, artifact paths and creation times of
\* the index of the old store
C31_RestartKeepsIndex ==
    [][last'.op = "restart"
         => {<<cache'[i].key, cache'[i].file_path, cache'[i].created_at>> :
                 i \in 1..Len(cache')}
            = {<<cache[i].key, cache[i].file_path, cache[i].created_at>> :
                 i \in 1..Len(cache)}]_vars

\* ------------------------------------------------- claims: bounded fan-out
\* C32: during a long-text request at most 3 external synthesis calls are in
\* flight at every moment, for every number of chunks and every interleaving
\* of the chunk tasks
C32_AtMostThreeInFlight ==
    Cardinality({i \in 1..Len(lr.task) : lr.task[i].pc = "calling"})
        <= MaxConcurrent

\* three calls are in flight while a fourth chunk waits for a permit
C32_Witness ==
    /\ Cardinality({i \in 1..Len(lr.task) : lr.task[i].pc = "calling"})
         = MaxConcurrent
    /\ \E i \in 1..Len(lr.task) : lr.task[i].pc = "queued"

\* ------------------------------------------------- claims: split boundaries
\* sub occurs in the window w at a 0-based position p with den * p past
\* (incl: at or past) num * max_length
Occurs(w, sub, num, den, max_length, incl) ==
    \E p \in 0..(Len(w) - Len(sub)) :
       /\ SubSeq(w, p + 1, p + Len(sub)) = sub
       /\ IF incl THEN den * p >= num * max_length
          ELSE den * p > num * max_length

\* the first rule, in the order paragraph separator, sentence ending, plain
\* newline, delimiter, that has a qualifying boundary in the window
FirstRule(w, max_length, incl) ==
    IF Occurs(w, <<"\n", "\n">>, 1, 2, max_length, incl) THEN "paragraph"
    ELSE IF \E e \in {".", "!"} : Occurs(w, <<e>>, 3, 10, max_length, incl)
    THEN "sentence"
    ELSE IF Occurs(w, <<"\n">>, 3, 10, max_length, incl) THEN "newline"
    ELSE IF \/ Occurs(w, <<",", " ">>, 1, 2, max_length, incl)
            \/ Occurs(w, <<" ">>, 1, 2, max_length, incl)
    THEN "delimiter"
    ELSE "forced"

\* the loop of split_text is about to cut the remainder
Cutting == sp.pc = "loop" /\ Len(sp.remaining_text) > sp.max_length

\* the first max_length characters of the remainder
Window == SubSeq(sp.remaining_text, 1, sp.max_length)

\* C33: each cut uses the first rule, in the order paragraph separator,
\* sentence ending, plain newline, delimiter, forced cut, that has a boundary
\* at or past its threshold within the first max_length characters of the
\* remainder
C33_FirstQualifyingRule ==
    [][Cutting => sp'.rule = FirstRule(Window, sp.max_length, TRUE)]_vars

\* C34: a cut at a sentence ending is placed immediately after the ending
\* character that occurs latest in the window among the endings found past
\* 30% of max_length, also when two different endings are adjacent
C34_LatestSentenceEnding ==
    [][(Cutting /\ sp'.rule = "sentence")
         => LET at == {p \in 0..(sp.max_length - 1) :
                         /\ Window[p + 1] \in {".", "!"}
                         /\ 10 * p > 3 * sp.max_length}
                latest == CHOOSE p \in at : \A q \in at : q <= p
            IN  /\ sp'.chunks = Append(sp.chunks,
                                       strip(SubSeq(sp.remaining_text, 1,
                                                    latest + 1)))
                /\ sp'.remaining_text =
                      strip(SubSeq(sp.remaining_text, latest + 2,
                                   Len(sp.remaining_text)))]_vars

\* C35: a boundary located exactly at its threshold is accepted as the split
\* point: a paragraph separator at 50% of max_length; a sentence ending at
\* 30% where the window has no paragraph separator; a newline at 30% where it
\* has no sentence ending either; a space at 50% where it has no newline either
C35_ThresholdIncluded ==
    [][Cutting
         => LET has(c) == \E i \in 1..Len(Window) : Window[i] = c
            IN  /\ 2 * rfind(Window, <<"\n", "\n">>) = sp.max_length
                      => sp'.rule = "paragraph"
                /\ (/\ rfind(Window, <<"\n", "\n">>) = -1
                    /\ \E e \in {".", "!"} :
                          10 * rfind(Window, <<e>>) = 3 * sp.max_length)
                      => sp'.rule = "sentence"
                /\ (/\ rfind(Window, <<"\n", "\n">>) = -1
                    /\ ~has(".") /\ ~has("!")
                    /\ 10 * rfind(Window, <<"\n">>) = 3 * sp.max_length)
                      => sp'.rule = "newline"
                /\ (/\ ~has("\n") /\ ~has(".") /\ ~has("!")
                    /\ 2 * rfind(Window, <<" ">>) = sp.max_length)
                      => sp'.rule = "delimiter"]_vars

\* ---------------------------------------------------- claims: entry and file
\* C36: in every state reached by put with existing sources, get, resize and
\* cleanup on a store with max_size >= 1, without external deletion and
\* without failing file operation, every entry of the index has its artifact
\* file
C36_EveryEntryHasFile ==
    \A i \in 1..Len(cache) : cache[i].file_path \in files

\* C37: a put on a key that is already in the index replaces the entry of
\* that key and removes no other entry: the number of entries and the set of
\* keys are unchanged, also when the store is at capacity
C37_PutPresentKeepsOthers ==
    [][(last'.op = "put" /\ last'.branch = "stored" /\ HasKey(cache, last'.key))
         => /\ Len(cache') = Len(cache)
            /\ {cache'[i].key : i \in 1..Len(cache')}
                 = {cache[i].key : i \in 1..Len(cache)}]_vars

\* C39: a get that hits changes only the hit counter and the access count,
\* last-accessed time and position (moved to most recent) of the hit entry; a
\* get on a key that is not in the index changes only the miss counter;
\* neither writes the metadata file, deletes a file or changes the relative
\* order of the other entries
C39_GetFrame ==
    [][/\ (last'.op = "get" /\ last'.branch = "hit")
          => LET k == last'.key
                 old == cache[CHOOSE i \in 1..Len(cache) : cache[i].key = k]
             IN  /\ hits' = hits + 1 /\ misses' = misses
                 /\ metadata' = metadata /\ files' = files
                 /\ max_size' = max_size /\ ttl_seconds' = ttl_seconds
                 /\ Len(cache') = Len(cache)
                 /\ cache'[Len(cache')] =
                       [key |-> k, file_path |-> old.file_path,
                        created_at |-> old.created_at,
                        access_count |-> old.access_count + 1,
                        last_accessed |-> now]
                 /\ SubSeq(cache', 1, Len(cache') - 1)
                       = SelectSeq(cache, LAMBDA e : e.key # k)
       /\ (last'.op = "get" /\ \A i \in 1..Len(cache) : cache[i].key # last'.key)
          => /\ misses' = misses + 1 /\ hits' = hits
             /\ cache' = cache /\ metadata' = metadata /\ files' = files
             /\ max_size' = max_size /\ ttl_seconds' = ttl_seconds]_vars

\* a get has just hit the older of two entries, which is now the most recent
C39_Witness ==
    /\ last.op = "get" /\ last.branch = "hit" /\ Len(cache) >= 2
    /\ cache[Len(cache)].key = last.key
    /\ cache[Len(cache)].created_at <= cache[1].created_at
    /\ cache[Len(cache)].last_accessed > cache[Len(cache)].created_at

\* ------------------------------------------------ claims: identical chunks
\* C38: after a long-text request with caching enabled that contains chunks
\* with identical text has succeeded, on a store whose max_size is at least
\* the number of distinct chunk keys, a get for every chunk key of the request
\* is a hit on an existing file, however the chunk tasks interleaved
C38_IdenticalChunksCached ==
    (/\ lr.pc = "returned" /\ lr.response.success /\ lr.enable_cache
     /\ Cardinality({lr.chunks[i] : i \in 1..Len(lr.chunks)}) < Len(lr.chunks)
     /\ max_size >= Cardinality({lr.chunks[i] : i \in 1..Len(lr.chunks)}))
    => \A i \in 1..Len(lr.chunks) :
          \E j \in 1..Len(cache) :
             /\ cache[j].key = lr.chunks[i]
             /\ now - cache[j].created_at <= ttl_seconds
             /\ cache[j].file_path \in files

\* ---------------------------------------------- claims: default output mode
\* C40: a generate_speech tool call that omits output_mode behaves as with
\* output_mode "file": the text is looked up or synthesized, and a success
\* answer carries the path of an existing artifact, with file_count >= 1
C40_OmittedModeIsFile ==
    (rq.pc = "done" /\ rq.args.output_mode = Absent
     /\ rq.response.kind = "success")
    => /\ rq.events # <<>>
       /\ rq.response.file_count >= 1
       /\ \/ rq.response.file_path \in DOMAIN temp_dir
          \/ rq.response.file_path \in files

====
